---- MODULE Spec2Model ----
(***************************************************************************)
(* Model of the pharmacy service (src/services/pharmacyService.ts): the    *)
(* localStorage-backed database, the inventory index operations, the       *)
(* pharmacy registry and the nearby-pharmacy ranking.                      *)
(*                                                                         *)
(* Strings are sequences of character codes, so that toLowerCase is a      *)
(* computation on the characters.  Coordinates are integers in             *)
(* millidegrees and every point lies on one meridian, where the haversine  *)
(* distance is R * |dLat|; a distance is kept in tenths of a kilometre,    *)
(* which is what toFixed(1) leaves of it.                                  *)
(***************************************************************************)
EXTENDS Integers, Sequences, FiniteSets, TLC

VARIABLES
    store,      \* localStorage item 'appDatabase': NoItem or the saved AppDatabase
    last,       \* the last service call: [op, args, ret, saved, before, raised]
    regHist,    \* registerOrGetPharmacy calls so far: <<[login, id], ...>>
    inventory,  \* the owner page's lists, localStorage items 'pharmacyInventory_<id>':
                \* pharmacy id -> InventoryItem[]
    tabs,       \* the service call each browser tab is in, between its getDb and
                \* its saveDb: tab -> [pc, op, args, db, ret]
    persisted,  \* the pharmacies registerOrGetPharmacy has saved, each with the
                \* tabs that had read the database before it was saved
    app,        \* the state of the App component and its pending callbacks
    ownerPage   \* the state of the PharmacyOwnerPage component and the owners kept
                \* in localStorage: [activeOwner, savedOwners, inventory]

\* what the service calls of one tab leave alone
rest == <<tabs, persisted, app, ownerPage>>

vars == <<store, last, regHist, inventory, tabs, persisted, app, ownerPage>>

(***************************************************************************)
(* Values                                                                  *)
(***************************************************************************)
Available == "Available"
Unavailable == "Unavailable"
\* an InventoryItem whose stock field is absent (undefined)
Missing == "undefined"

\* What localStorage.getItem(DB_KEY) gives.  present says that it returned a
\* non-empty string; db is then what JSON.parse makes of the string.
\* NoItem: nothing was saved under the key (null)
NoItem == [present |-> FALSE]

\* the item is the empty string
EmptyText == [present |-> FALSE, text |-> ""]

\* getItem throws (storage access denied)
Unreadable == [present |-> FALSE, error |-> "SecurityError"]

\* JSON.parse throws on the string
SyntaxError == [error |-> "SyntaxError"]

\* the string is "null"
JsonNull == [null |-> TRUE]

\* the string is a JSON object that has neither field of a database
ForeignObject == [version |-> 1]

\* the string is a JSON object with an index and no registry
InventoryOnly == [globalInventory |-> <<>>]

\* db.field is not undefined
Has(db, field) == field \in DOMAIN db

\* "constructor" and "__proto__": the lower-case names of properties that every
\* object JSON.parse makes inherits from Object.prototype
ConstructorKey == <<99, 111, 110, 115, 116, 114, 117, 99, 116, 111, 114>>

ProtoKey == <<95, 95, 112, 114, 111, 116, 111, 95, 95>>

\* globalInventory[key] is not a collection of the index but the function
\* Object or the object Object.prototype: truthy, and without the array methods
Inherited(inv, key) == key \notin DOMAIN inv /\ key \in {ConstructorKey, ProtoKey}

Min(a, b) == IF a < b THEN a ELSE b
Max(a, b) == IF a > b THEN a ELSE b

\* String.prototype.toLowerCase on ASCII: 'A'..'Z' (65..90) map to 'a'..'z'
ToLowerCase(s) == [i \in DOMAIN s |-> IF s[i] \in 65..90 THEN s[i] + 32 ELSE s[i]]

(***************************************************************************)
(* Record store: getDb / saveDb                                            *)
(***************************************************************************)
EmptyDb == [globalInventory |-> <<>>, dynamicPharmacies |-> <<>>]

\* getDb: the parsed item, or the default database when there is no item.
\* JSON.parse(JSON.stringify(db)) gives back the strings, finite numbers, arrays
\* and plain objects a database is made of.
\* Whatever JSON.parse returns is returned as it is; the default database is
\* for a falsy item and for what the catch block caught.
GetDb(item) ==
    IF item.present /\ ~Has(item.db, "error") THEN item.db ELSE EmptyDb

\* const { globalInventory } = db; globalInventory[medicineKey]: a TypeError on
\* a null db and on an undefined globalInventory
IndexRaises(db) == Has(db, "null") \/ ~Has(db, "globalInventory")

\* globalInventory[medicineKey].findIndex, .filter, .find or .map: a TypeError
\* also when the value is an inherited one, which has no such method
LookupRaises(db, medicineName) ==
    IndexRaises(db) \/ Inherited(db.globalInventory, ToLowerCase(medicineName))

\* updateGlobalInventory reads globalInventory[medicineKey] once per item, and
\* calls findIndex on what it finds there
UpdateRaises(db, items) ==
    \/ Has(db, "null")
    \/ ~Has(db, "globalInventory") /\ items # <<>>
    \/ /\ Has(db, "globalInventory")
       /\ \E i \in 1..Len(items) :
              Inherited(db.globalInventory, ToLowerCase(items[i].medicineName))

\* [...VERIFIED_PHARMACIES_IN_BANGALORE, ...db.dynamicPharmacies]: a TypeError on
\* a null db and on an undefined dynamicPharmacies, which is not iterable
RegistryRaises(db) == Has(db, "null") \/ ~Has(db, "dynamicPharmacies")

\* findNearbyPharmacies reads both, and calls map on the medicine's collection
NearbyRaises(db, medicineName) == LookupRaises(db, medicineName) \/ RegistryRaises(db)

\* saveDb: the item written by localStorage.setItem(DB_KEY, JSON.stringify(db))
SaveDb(db) == [present |-> TRUE, db |-> db]

\* Array.prototype.findIndex(p => p.pharmacyId === pharmacyId), 1-based; 0 is JS's -1
RECURSIVE FindIndexFrom(_, _, _)
FindIndexFrom(coll, pharmacyId, i) ==
    IF i > Len(coll) THEN 0
    ELSE IF coll[i].pharmacyId = pharmacyId THEN i
    ELSE FindIndexFrom(coll, pharmacyId, i + 1)

FindIndex(coll, pharmacyId) == FindIndexFrom(coll, pharmacyId, 1)

\* globalInventory[key] = value on a plain object
SetKey(inv, key, value) ==
    [k \in DOMAIN inv \cup {key} |-> IF k = key THEN value ELSE inv[k]]

\* delete globalInventory[key]
DeleteKey(inv, key) == [k \in DOMAIN inv \ {key} |-> inv[k]]

(***************************************************************************)
(* Inventory index manager                                                 *)
(***************************************************************************)
\* UpsertItem without the findIndex test: every item is pushed as a new entry
UpsertItemAlwaysPush(inv, pharmacyId, item) ==
    LET medicineKey == ToLowerCase(item.medicineName)
        inv1 == IF medicineKey \in DOMAIN inv THEN inv ELSE SetKey(inv, medicineKey, <<>>)
        stock == IF item.stock = Missing THEN Available ELSE item.stock
    IN  [inv1 EXCEPT ![medicineKey] =
            Append(@, [pharmacyId |-> pharmacyId, price |-> item.price, stock |-> stock])]

\* UpsertItem keyed by the name as typed, without toLowerCase
UpsertItemCaseSensitive(inv, pharmacyId, item) ==
    LET medicineKey == item.medicineName
        inv1 == IF medicineKey \in DOMAIN inv THEN inv ELSE SetKey(inv, medicineKey, <<>>)
        pharmacyEntryIndex == FindIndex(inv1[medicineKey], pharmacyId)
        stock == IF item.stock = Missing THEN Available ELSE item.stock
    IN  IF pharmacyEntryIndex > 0
        THEN [inv1 EXCEPT ![medicineKey][pharmacyEntryIndex].price = item.price,
                          ![medicineKey][pharmacyEntryIndex].stock = stock]
        ELSE [inv1 EXCEPT ![medicineKey] =
                 Append(@, [pharmacyId |-> pharmacyId, price |-> item.price, stock |-> stock])]

\* UpsertItem leaving an entry it finds as it is
UpsertItemKeepsExisting(inv, pharmacyId, item) ==
    LET medicineKey == ToLowerCase(item.medicineName)
        inv1 == IF medicineKey \in DOMAIN inv THEN inv ELSE SetKey(inv, medicineKey, <<>>)
        pharmacyEntryIndex == FindIndex(inv1[medicineKey], pharmacyId)
        stock == IF item.stock = Missing THEN Available ELSE item.stock
    IN  IF pharmacyEntryIndex > 0
        THEN inv1
        ELSE [inv1 EXCEPT ![medicineKey] =
                 Append(@, [pharmacyId |-> pharmacyId, price |-> item.price, stock |-> stock])]

\* the body of items.forEach in updateGlobalInventory
UpsertItem(inv, pharmacyId, item) ==
    LET medicineKey == ToLowerCase(item.medicineName)
        inv1 == IF medicineKey \in DOMAIN inv THEN inv ELSE SetKey(inv, medicineKey, <<>>)
        pharmacyEntryIndex == FindIndex(inv1[medicineKey], pharmacyId)
        stock == IF item.stock = Missing THEN Available ELSE item.stock
    IN  IF pharmacyEntryIndex > 0
        THEN [inv1 EXCEPT ![medicineKey][pharmacyEntryIndex].price = item.price,
                          ![medicineKey][pharmacyEntryIndex].stock = stock]
        ELSE [inv1 EXCEPT ![medicineKey] =
                 Append(@, [pharmacyId |-> pharmacyId, price |-> item.price, stock |-> stock])]

RECURSIVE UpsertItems(_, _, _)
UpsertItems(inv, pharmacyId, items) ==
    IF items = <<>> THEN inv
    ELSE UpsertItems(UpsertItem(inv, pharmacyId, Head(items)), pharmacyId, Tail(items))

\* updateGlobalInventory: the calls of saveDb, one after the forEach
UpdateSaves(items) == 1

\* updateGlobalInventory: the database handed to saveDb
UpdateGlobalInventory(db, pharmacyId, items) ==
    IF Has(db, "globalInventory")
    THEN [db EXCEPT !.globalInventory = UpsertItems(@, pharmacyId, items)]
    ELSE db

\* updateStockStatusInGlobalInventory: whether saveDb is reached
StatusEntryExists(db, pharmacyId, medicineName) ==
    LET medicineKey == ToLowerCase(medicineName)
    IN  /\ medicineKey \in DOMAIN db.globalInventory
        /\ FindIndex(db.globalInventory[medicineKey], pharmacyId) > 0

\* the stock written to every entry of the medicine, whichever pharmacy's
SetStatusOfAllPharmacies(db, pharmacyId, medicineName, stock) ==
    LET medicineKey == ToLowerCase(medicineName)
    IN  IF StatusEntryExists(db, pharmacyId, medicineName)
        THEN [db EXCEPT !.globalInventory[medicineKey] =
                            [e \in DOMAIN @ |-> [@[e] EXCEPT !.stock = stock]]]
        ELSE db

\* updateStockStatusInGlobalInventory: the database as mutated in memory
UpdateStockStatusInGlobalInventory(db, pharmacyId, medicineName, stock) ==
    LET medicineKey == ToLowerCase(medicineName)
    IN  IF StatusEntryExists(db, pharmacyId, medicineName)
        THEN [db EXCEPT !.globalInventory[medicineKey]
                            [FindIndex(db.globalInventory[medicineKey], pharmacyId)].stock = stock]
        ELSE db

\* Array.prototype.filter(p => p.pharmacyId !== pharmacyId)
RECURSIVE FilterOut(_, _)
FilterOut(coll, pharmacyId) ==
    IF coll = <<>> THEN <<>>
    ELSE IF Head(coll).pharmacyId # pharmacyId
         THEN <<Head(coll)>> \o FilterOut(Tail(coll), pharmacyId)
         ELSE FilterOut(Tail(coll), pharmacyId)

\* DeleteFromGlobalInventory without the delete of a key left empty
DeleteKeepsEmptyKey(db, pharmacyId, medicineName) ==
    LET medicineKey == ToLowerCase(medicineName)
        inv == db.globalInventory
    IN  IF medicineKey \in DOMAIN inv
        THEN [db EXCEPT !.globalInventory[medicineKey] = FilterOut(inv[medicineKey], pharmacyId)]
        ELSE db

\* the medicine's key deleted with every pharmacy's entry
DeleteWholeKey(db, pharmacyId, medicineName) ==
    LET medicineKey == ToLowerCase(medicineName)
        inv == db.globalInventory
    IN  IF medicineKey \in DOMAIN inv
        THEN [db EXCEPT !.globalInventory = DeleteKey(inv, medicineKey)]
        ELSE db

\* deleteFromGlobalInventory: the database handed to saveDb
DeleteFromGlobalInventory(db, pharmacyId, medicineName) ==
    LET medicineKey == ToLowerCase(medicineName)
        inv == db.globalInventory
    IN  IF medicineKey \in DOMAIN inv
        THEN LET filtered == FilterOut(inv[medicineKey], pharmacyId)
             IN  IF Len(filtered) = 0
                 THEN [db EXCEPT !.globalInventory = DeleteKey(inv, medicineKey)]
                 ELSE [db EXCEPT !.globalInventory[medicineKey] = filtered]
        ELSE db

\* checkMedicineLocally: !!globalInventory[key] && globalInventory[key].length > 0.
\* An inherited value is truthy; the length of the function Object is 1 and
\* Object.prototype has none.
CheckMedicineLocally(db, medicineName) ==
    LET medicineKey == ToLowerCase(medicineName)
    IN  IF medicineKey \in DOMAIN db.globalInventory
        THEN Len(db.globalInventory[medicineKey]) > 0
        ELSE Inherited(db.globalInventory, medicineKey) /\ medicineKey = ConstructorKey

\* the null getMedicineDetailsForPharmacy resolves to
NotFound == [found |-> FALSE]

\* getMedicineDetailsForPharmacy
GetMedicineDetailsForPharmacy(db, pharmacyId, medicineName) ==
    LET medicineKey == ToLowerCase(medicineName)
    IN  IF medicineKey \in DOMAIN db.globalInventory
        THEN LET inventoryEntry == db.globalInventory[medicineKey]
                 i == FindIndex(inventoryEntry, pharmacyId)
             IN  IF i > 0
                 THEN [found |-> TRUE,
                       price |-> inventoryEntry[i].price,
                       stock |-> inventoryEntry[i].stock]
                 ELSE NotFound
        ELSE NotFound

(***************************************************************************)
(* Pharmacy registry manager                                               *)
(***************************************************************************)
\* VERIFIED_PHARMACIES_IN_BANGALORE: the pre-seeded list, which is empty
VERIFIED_PHARMACIES_IN_BANGALORE == <<>>

\* the reserved baseline in Math.max(..., 1000)
BaselineId == 1000

\* [...VERIFIED_PHARMACIES_IN_BANGALORE, ...db.dynamicPharmacies]
AllPharmacies(db) == VERIFIED_PHARMACIES_IN_BANGALORE \o db.dynamicPharmacies

\* allPharmacies.find(p => p.name.toLowerCase() === details.name.toLowerCase()),
\* as a 1-based position; 0 when there is none
RECURSIVE FindByNameFrom(_, _, _)
FindByNameFrom(all, name, i) ==
    IF i > Len(all) THEN 0
    ELSE IF ToLowerCase(all[i].name) = ToLowerCase(name) THEN i
    ELSE FindByNameFrom(all, name, i + 1)

\* the lookup comparing the names as typed, without toLowerCase
RECURSIVE FindByNameCaseSensitive(_, _)
FindByNameCaseSensitive(all, name) ==
    IF all = <<>> THEN 0
    ELSE IF all[Len(all)].name = name /\ FindByNameCaseSensitive(SubSeq(all, 1, Len(all) - 1), name) = 0
         THEN Len(all)
         ELSE FindByNameCaseSensitive(SubSeq(all, 1, Len(all) - 1), name)

FindByName(all, name) == FindByNameFrom(all, name, 1)

\* Math.max(...allPharmacies.map(p => p.id), 1000)
RECURSIVE MaxIdFrom(_, _, _)
MaxIdFrom(all, i, acc) ==
    IF i > Len(all) THEN acc ELSE MaxIdFrom(all, i + 1, Max(acc, all[i].id))

\* the maximum taken over the pre-seeded list alone
MaxIdVerifiedOnly(all) == MaxIdFrom(VERIFIED_PHARMACIES_IN_BANGALORE, 1, BaselineId)

MaxId(all) == MaxIdFrom(all, 1, BaselineId)

\* the record registerOrGetPharmacy builds on a miss
NewPharmacy(all, details, location) ==
    [id |-> MaxId(all) + 1,
     name |-> details.name,
     address |-> details.address,
     phone |-> details.phone,
     lat |-> location.lat,
     lon |-> location.lon]

\* registerOrGetPharmacy without the push of the new record
RegisterWithoutPush(db, details, location) ==
    LET allPharmacies == AllPharmacies(db)
        existing == FindByName(allPharmacies, details.name)
    IN  IF existing > 0
        THEN [hit |-> TRUE, ret |-> allPharmacies[existing], db |-> db]
        ELSE [hit |-> FALSE, ret |-> NewPharmacy(allPharmacies, details, location), db |-> db]

\* registerOrGetPharmacy as an upsert: a hit takes the request's details
RegisterAsUpsert(db, details, location) ==
    LET allPharmacies == AllPharmacies(db)
        existing == FindByName(allPharmacies, details.name)
    IN  IF existing > 0
        THEN LET updated == [allPharmacies[existing] EXCEPT
                                !.address = details.address, !.phone = details.phone,
                                !.lat = location.lat, !.lon = location.lon]
             IN  [hit |-> TRUE, ret |-> updated,
                  db |-> [db EXCEPT !.dynamicPharmacies[existing] = updated]]
        ELSE LET newPharmacy == NewPharmacy(allPharmacies, details, location)
             IN  [hit |-> FALSE,
                  ret |-> newPharmacy,
                  db |-> [db EXCEPT !.dynamicPharmacies = Append(@, newPharmacy)]]

\* registerOrGetPharmacy: [hit, ret, db], db being what is saved on a miss
RegisterOrGetPharmacy(db, details, location) ==
    LET allPharmacies == AllPharmacies(db)
        existing == FindByName(allPharmacies, details.name)
    IN  IF existing > 0
        THEN [hit |-> TRUE, ret |-> allPharmacies[existing], db |-> db]
        ELSE LET newPharmacy == NewPharmacy(allPharmacies, details, location)
             IN  [hit |-> FALSE,
                  ret |-> newPharmacy,
                  db |-> [db EXCEPT !.dynamicPharmacies = Append(@, newPharmacy)]]

\* the Map that keeps the first pharmacy set under a key
RECURSIVE DedupKeepsFirst(_, _)
DedupKeepsFirst(all, acc) ==
    IF all = <<>> THEN acc
    ELSE LET p == Head(all)
             i == FindByName(acc, p.name)
         IN  DedupKeepsFirst(Tail(all), IF i > 0 THEN acc ELSE Append(acc, p))

\* getRegisteredPharmacies, before the sort: the Map keyed by lower-cased name
\* keeps each key at the position of its first set and the value of its last
RECURSIVE DedupByName(_, _)
DedupByName(all, acc) ==
    IF all = <<>> THEN acc
    ELSE LET p == Head(all)
             i == FindByName(acc, p.name)
         IN  DedupByName(Tail(all), IF i > 0 THEN [acc EXCEPT ![i] = p] ELSE Append(acc, p))

\* a.localeCompare(b) on names made of ASCII letters, as -1, 0 or 1: the letters
\* decide, whatever their case, a name coming after its proper prefixes; between
\* names with the same letters the first difference of case decides, the
\* lower-case letter first
RECURSIVE CompareLetters(_, _, _)
CompareLetters(a, b, i) ==
    IF i > Len(a) /\ i > Len(b) THEN 0
    ELSE IF i > Len(a) THEN -1
    ELSE IF i > Len(b) THEN 1
    ELSE IF a[i] < b[i] THEN -1
    ELSE IF a[i] > b[i] THEN 1
    ELSE CompareLetters(a, b, i + 1)

LocaleCompare(a, b) ==
    LET letters == CompareLetters(ToLowerCase(a), ToLowerCase(b), 1)
    IN  IF letters # 0 THEN letters ELSE 0 - CompareLetters(a, b, 1)

\* insertion of p into a list sorted by name, after the entries that do not
\* compare greater: Array.prototype.sort is stable
RECURSIVE InsertByName(_, _)
InsertByName(sorted, p) ==
    IF sorted = <<>> THEN <<p>>
    ELSE IF LocaleCompare(Head(sorted).name, p.name) <= 0
         THEN <<Head(sorted)>> \o InsertByName(Tail(sorted), p)
         ELSE <<p>> \o sorted

\* uniquePharmacies.sort((a, b) => a.name.localeCompare(b.name))
RECURSIVE SortByName(_)
SortByName(list) ==
    IF list = <<>> THEN <<>>
    ELSE InsertByName(SortByName(SubSeq(list, 1, Len(list) - 1)), list[Len(list)])

\* getRegisteredPharmacies
GetRegisteredPharmacies(db) == SortByName(DedupByName(AllPharmacies(db), <<>>))

(***************************************************************************)
(* Distance calculator                                                     *)
(***************************************************************************)
\* R, the radius of the Earth in km
EarthRadiusKm == 6371

Abs(x) == IF x < 0 THEN 0 - x ELSE x

\* parseFloat(haversineDistance(loc1, loc2).toFixed(1)), in tenths of a km, for
\* two points of one meridian (dLon = 0): R * dLat * pi / 180, with pi = 355/113
\* and the latitudes in millidegrees
Distance10(loc1, loc2) ==
    (2 * EarthRadiusKm * 355 * Abs(loc2.lat - loc1.lat) + 113 * 18000) \div (2 * 113 * 18000)

(***************************************************************************)
(* Nearby-match engine                                                     *)
(***************************************************************************)
MAX_RESULTS == 15

\* new Map(pharmaciesWithStock.map(p => [p.pharmacyId, p.x])).get(id): the last
\* entry of the collection with that pharmacyId; 0 when there is none
RECURSIVE LastIndexFrom(_, _, _)
LastIndexFrom(coll, pharmacyId, i) ==
    IF i = 0 THEN 0
    ELSE IF coll[i].pharmacyId = pharmacyId THEN i
    ELSE LastIndexFrom(coll, pharmacyId, i - 1)

\* the element with the unit label of a priced entry whether there is one or not
WithDetailsAlwaysPerStrip(pharmacy, pharmaciesWithStock, userLocation) ==
    LET e == LastIndexFrom(pharmaciesWithStock, pharmacy.id, Len(pharmaciesWithStock))
        hasEntry == e > 0
    IN  [id |-> pharmacy.id,
         name |-> pharmacy.name,
         address |-> pharmacy.address,
         phone |-> pharmacy.phone,
         lat |-> pharmacy.lat,
         lon |-> pharmacy.lon,
         distance |-> Distance10(userLocation, pharmacy),
         price |-> IF hasEntry THEN pharmaciesWithStock[e].price ELSE 0,
         priceUnit |-> "per strip",
         stock |-> IF hasEntry THEN pharmaciesWithStock[e].stock ELSE Unavailable,
         isBestOption |-> FALSE]

\* one element of allPharmaciesWithDetails, with isBestOption: false added
WithDetails(pharmacy, pharmaciesWithStock, userLocation) ==
    LET e == LastIndexFrom(pharmaciesWithStock, pharmacy.id, Len(pharmaciesWithStock))
        hasEntry == e > 0
    IN  [id |-> pharmacy.id,
         name |-> pharmacy.name,
         address |-> pharmacy.address,
         phone |-> pharmacy.phone,
         lat |-> pharmacy.lat,
         lon |-> pharmacy.lon,
         distance |-> Distance10(userLocation, pharmacy),
         price |-> IF hasEntry THEN pharmaciesWithStock[e].price ELSE 0,
         priceUnit |-> IF hasEntry THEN "per strip" ELSE "-",
         stock |-> IF hasEntry THEN pharmaciesWithStock[e].stock ELSE Unavailable,
         isBestOption |-> FALSE]

IsAvailable(p) == p.stock = Available

IsNotAvailable(p) == p.stock # Available

\* insertion of p into a list sorted by distance, after the entries that are
\* not farther: Array.prototype.sort is stable
RECURSIVE InsertByDistance(_, _)
InsertByDistance(sorted, p) ==
    IF sorted = <<>> THEN <<p>>
    ELSE IF Head(sorted).distance <= p.distance
         THEN <<Head(sorted)>> \o InsertByDistance(Tail(sorted), p)
         ELSE <<p>> \o sorted

\* the list left in the order of the registry, the sort forgotten
Unsorted(list) == list

\* unavailablePharmacies.sort((a, b) => a.distance - b.distance)
RECURSIVE SortByDistance(_)
SortByDistance(list) ==
    IF list = <<>> THEN <<>>
    ELSE InsertByDistance(SortByDistance(SubSeq(list, 1, Len(list) - 1)), list[Len(list)])

\* the two lists concatenated and cut at MAX_RESULTS
CombineTruncated(availablePharmacies, unavailablePharmacies) ==
    SubSeq(availablePharmacies \o unavailablePharmacies, 1,
           Min(MAX_RESULTS, Len(availablePharmacies) + Len(unavailablePharmacies)))

\* [...availablePharmacies] followed by unavailablePharmacies.slice(0, neededUnavailable)
CombineResults(availablePharmacies, unavailablePharmacies) ==
    LET neededUnavailable == MAX_RESULTS - Len(availablePharmacies)
    IN  IF neededUnavailable > 0
        THEN availablePharmacies
                 \o SubSeq(unavailablePharmacies, 1, Min(neededUnavailable, Len(unavailablePharmacies)))
        ELSE availablePharmacies

\* the callback with the distance in km not multiplied by 10
BetterOfUnweighted(best, current) ==
    LET bestScore == best.distance + 10 * best.price
        currentScore == current.distance + 10 * current.price
    IN  IF currentScore < bestScore THEN current ELSE best

\* the callback of availablePharmacies.reduce; distance is in tenths of a km,
\* so that distance * 10 + price is distance + price here
BetterOf(best, current) ==
    LET bestScore == best.distance + best.price
        currentScore == current.distance + current.price
    IN  IF currentScore < bestScore THEN current ELSE best

\* availablePharmacies.reduce(callback), which starts from the first element
RECURSIVE ReduceBest(_, _, _)
ReduceBest(availablePharmacies, i, best) ==
    IF i > Len(availablePharmacies) THEN best
    ELSE ReduceBest(availablePharmacies, i + 1, BetterOf(best, availablePharmacies[i]))

\* combinedResults.findIndex(p => p.id === id), 1-based; 0 is JS's -1
RECURSIVE FindIdFrom(_, _, _)
FindIdFrom(list, id, i) ==
    IF i > Len(list) THEN 0
    ELSE IF list[i].id = id THEN i
    ELSE FindIdFrom(list, id, i + 1)

\* the best option taken among the combined results, not among the available
MarkBestOfCombined(combinedResults, availablePharmacies) ==
    IF Len(combinedResults) > 0
    THEN LET bestOption == ReduceBest(combinedResults, 2, combinedResults[1])
             bestOptionIndex == FindIdFrom(combinedResults, bestOption.id, 1)
         IN  [combinedResults EXCEPT ![bestOptionIndex].isBestOption = TRUE]
    ELSE combinedResults

\* step 4 of findNearbyPharmacies: the combined list with the best option marked
MarkBestOption(combinedResults, availablePharmacies) ==
    IF Len(availablePharmacies) > 0
    THEN LET bestOption == ReduceBest(availablePharmacies, 2, availablePharmacies[1])
             bestOptionIndex == FindIdFrom(combinedResults, bestOption.id, 1)
         IN  IF bestOptionIndex > 0
             THEN [combinedResults EXCEPT ![bestOptionIndex].isBestOption = TRUE]
             ELSE combinedResults
    ELSE combinedResults

\* findNearbyPharmacies
FindNearbyPharmacies(db, userLocation, medicineName) ==
    LET medicineKey == ToLowerCase(medicineName)
        pharmaciesWithStock ==
            IF medicineKey \in DOMAIN db.globalInventory
            THEN db.globalInventory[medicineKey] ELSE <<>>
        allBasePharmacies == AllPharmacies(db)
        allPharmaciesWithDetails ==
            [i \in 1..Len(allBasePharmacies) |->
                WithDetails(allBasePharmacies[i], pharmaciesWithStock, userLocation)]
        availablePharmacies == SelectSeq(allPharmaciesWithDetails, IsAvailable)
        unavailablePharmacies ==
            SortByDistance(SelectSeq(allPharmaciesWithDetails, IsNotAvailable))
    IN  MarkBestOption(CombineResults(availablePharmacies, unavailablePharmacies),
                       availablePharmacies)

(***************************************************************************)
(* Inputs                                                                  *)
(***************************************************************************)
\* medicine names "Pa", "pA" (one medicine, two spellings) and "q"; none is the
\* name of a property of Object.prototype, which globalInventory[key] would find
MedicineNames == {<<80, 97>>, <<112, 65>>, <<113>>}

\* the pharmacy ids owners upload under
PharmacyIds == {1001, 1002}

StockStatuses == {Available, Unavailable}

\* the InventoryItems of a batch; the first has no stock field
ItemsFor(name) ==
    {[medicineName |-> name, price |-> 50, stock |-> Missing],
     [medicineName |-> name, price |-> 65, stock |-> Unavailable]}

Items ==
    UNION {ItemsFor(name) : name \in {<<80, 97>>, <<112, 65>>}}
        \cup {[medicineName |-> <<113>>, price |-> 50, stock |-> Available]}

\* the batches of updateGlobalInventory: no, one or two items
Batches == {<<>>} \cup {<<a>> : a \in Items} \cup {<<a, b>> : a \in Items, b \in Items}

\* the uploads made between registrations
SeedBatches ==
    {<<[medicineName |-> <<80, 97>>, price |-> 50, stock |-> Available]>>,
     <<[medicineName |-> <<113>>, price |-> 65, stock |-> Unavailable]>>}

\* pharmacy names "Ap", "aP" (one pharmacy, two spellings), "B" and "c"
PharmacyNames == {<<65, 112>>, <<97, 80>>, <<66>>, <<99>>}

\* what an owner types at login: contact details and the place they go with
Logins ==
    {[details |-> [name |-> n, address |-> "MG Road", phone |-> "111"],
      location |-> [lat |-> 12979, lon |-> 77594]] : n \in PharmacyNames}
    \cup
    {[details |-> [name |-> n, address |-> "Brigade Road", phone |-> "222"],
      location |-> [lat |-> 12988, lon |-> 77594]] : n \in PharmacyNames}

\* where a search is made from
UserLocations == {[lat |-> 12970, lon |-> 77594], [lat |-> 12997, lon |-> 77594]}

\* registerOrGetPharmacy calls in one behaviour
MaxRegs == 3

\* no owner has a list yet: getItem gives null and the page shows []
NoInventories == [pharmacyId \in PharmacyIds |-> <<>>]

\* the browser tabs that share the localStorage item
Tabs == {1, 2, 3}

\* a tab that is in no service call
Idle == [pc |-> "idle"]

NoTabs == [tab \in Tabs |-> Idle]

\* a text of the interface: the template literal and the name put in it
Text(template, name) == [template |-> template, name |-> name]

\* the empty string of useState('')
NoText == Text("", <<>>)

\* useState<SearchConfirmation | null>(null)
NoConfirmation == [isNull |-> TRUE, suggestion |-> <<>>, original |-> <<>>]

\* the App component as useState initialises it (src/App.tsx), in a browser
\* with navigator.geolocation; pending holds the promises and geolocation
\* requests not settled yet and epoch counts the user's actions so far
HomeApp ==
    [page |-> "home", pharmacies |-> <<>>, isLoading |-> FALSE, sortBy |-> "distance",
     statusText |-> NoText, medicineChoices |-> <<>>, locationError |-> NoText,
     searchConfirmation |-> NoConfirmation, searchedMedicine |-> <<>>,
     medicineDescription |-> NoText, geolocation |-> TRUE, pending |-> {}, epoch |-> 0]

\* useState<EnrichedPharmacyOwner | null>(null)
NoOwner == [id |-> 0]

\* the PharmacyOwnerPage before anyone has logged in, no owner kept
LoginPage == [activeOwner |-> NoOwner, savedOwners |-> <<>>, inventory |-> <<>>]

(***************************************************************************)
(* The service calls, each run from getDb to saveDb without interleaving.  *)
(* last keeps the call, what it resolved to, whether saveDb was reached    *)
(* and the item it started from.                                           *)
(***************************************************************************)
NoCall ==
    [op |-> "none", args |-> <<>>, ret |-> <<>>, saved |-> FALSE, before |-> NoItem,
     raised |-> FALSE]

\* the call rejected with the TypeError the function body threw
Raised(op, args) ==
    [op |-> op, args |-> args, ret |-> <<>>, saved |-> FALSE, before |-> store,
     raised |-> TRUE]

Init ==
    /\ store = NoItem
    /\ last = NoCall
    /\ regHist = <<>>
    /\ inventory = NoInventories
    /\ tabs = NoTabs
    /\ persisted = {}
    /\ app = HomeApp
    /\ ownerPage = LoginPage

\* a call of updateGlobalInventory, from getDb to saveDb
UpdateCall(pharmacyId, items) ==
    LET db == GetDb(store)
        args == [pharmacyId |-> pharmacyId, items |-> items]
    IN  IF UpdateRaises(db, items)
        THEN /\ store' = store
             /\ last' = Raised("updateGlobalInventory", args)
        ELSE /\ store' = SaveDb(UpdateGlobalInventory(db, pharmacyId, items))
             /\ last' = [op |-> "updateGlobalInventory", args |-> args,
                         ret |-> <<>>, saved |-> TRUE, before |-> store, raised |-> FALSE,
                         saves |-> UpdateSaves(items)]

UpsertMany(pharmacyId, items) ==
    /\ UpdateCall(pharmacyId, items)
    /\ UNCHANGED <<regHist, inventory, rest>>

SetStatus(pharmacyId, medicineName, stock) ==
    LET db == GetDb(store)
        args == [pharmacyId |-> pharmacyId, medicineName |-> medicineName, stock |-> stock]
    IN  /\ IF LookupRaises(db, medicineName)
           THEN /\ store' = store
                /\ last' = Raised("updateStockStatusInGlobalInventory", args)
           ELSE LET found == StatusEntryExists(db, pharmacyId, medicineName)
                IN  /\ store' = IF found
                                THEN SaveDb(UpdateStockStatusInGlobalInventory(
                                                db, pharmacyId, medicineName, stock))
                                ELSE store
                    /\ last' = [op |-> "updateStockStatusInGlobalInventory", args |-> args,
                                ret |-> <<>>, saved |-> found, before |-> store,
                                raised |-> FALSE]
        /\ UNCHANGED <<regHist, inventory, rest>>

Remove(pharmacyId, medicineName) ==
    LET db == GetDb(store)
        args == [pharmacyId |-> pharmacyId, medicineName |-> medicineName]
    IN  /\ IF LookupRaises(db, medicineName)
           THEN /\ store' = store
                /\ last' = Raised("deleteFromGlobalInventory", args)
           ELSE /\ store' = SaveDb(DeleteFromGlobalInventory(db, pharmacyId, medicineName))
                /\ last' = [op |-> "deleteFromGlobalInventory", args |-> args,
                            ret |-> <<>>, saved |-> TRUE, before |-> store, raised |-> FALSE]
        /\ UNCHANGED <<regHist, inventory, rest>>

Register(login) ==
    LET db == GetDb(store)
    IN  /\ Len(regHist) < MaxRegs
        /\ UNCHANGED <<inventory, rest>>
        /\ IF RegistryRaises(db)
           THEN /\ store' = store
                /\ last' = Raised("registerOrGetPharmacy", login)
                /\ regHist' = regHist
           ELSE LET r == RegisterOrGetPharmacy(db, login.details, login.location)
                IN  /\ store' = IF r.hit THEN store ELSE SaveDb(r.db)
                    /\ last' = [op |-> "registerOrGetPharmacy", args |-> login, ret |-> r.ret,
                                saved |-> ~r.hit, before |-> store, raised |-> FALSE]
                    /\ regHist' = Append(regHist, [login |-> login, id |-> r.ret.id])

List ==
    LET db == GetDb(store)
    IN  /\ last' = IF RegistryRaises(db)
                   THEN Raised("getRegisteredPharmacies", <<>>)
                   ELSE [op |-> "getRegisteredPharmacies", args |-> <<>>,
                         ret |-> GetRegisteredPharmacies(db),
                         saved |-> FALSE, before |-> store, raised |-> FALSE]
        /\ UNCHANGED <<store, regHist, inventory, rest>>

HasMedicine(medicineName) ==
    LET db == GetDb(store)
        args == [medicineName |-> medicineName]
    IN  /\ last' = IF IndexRaises(db)
                   THEN Raised("checkMedicineLocally", args)
                   ELSE [op |-> "checkMedicineLocally", args |-> args,
                         ret |-> CheckMedicineLocally(db, medicineName),
                         saved |-> FALSE, before |-> store, raised |-> FALSE]
        /\ UNCHANGED <<store, regHist, inventory, rest>>

EntryFor(pharmacyId, medicineName) ==
    LET db == GetDb(store)
        args == [pharmacyId |-> pharmacyId, medicineName |-> medicineName]
    IN  /\ last' = IF LookupRaises(db, medicineName)
                   THEN Raised("getMedicineDetailsForPharmacy", args)
                   ELSE [op |-> "getMedicineDetailsForPharmacy", args |-> args,
                         ret |-> GetMedicineDetailsForPharmacy(db, pharmacyId, medicineName),
                         saved |-> FALSE, before |-> store, raised |-> FALSE]
        /\ UNCHANGED <<store, regHist, inventory, rest>>

FindNearby(userLocation, medicineName) ==
    LET db == GetDb(store)
        args == [userLocation |-> userLocation, medicineName |-> medicineName]
    IN  /\ last' = IF NearbyRaises(db, medicineName)
                   THEN Raised("findNearbyPharmacies", args)
                   ELSE [op |-> "findNearbyPharmacies", args |-> args,
                         ret |-> FindNearbyPharmacies(db, userLocation, medicineName),
                         saved |-> FALSE, before |-> store, raised |-> FALSE]
        /\ UNCHANGED <<store, regHist, inventory, rest>>

(***************************************************************************)
(* The pharmacy owner's page: the two ways an owner's items get to         *)
(* updateGlobalInventory, for the owner logged in under pharmacyId.        *)
(***************************************************************************)
\* the NaN parseFloat gives for a text that does not start with a number
NaN == [nan |-> TRUE]

IsDigit(c) == c \in 48..57

\* the value of the digits of s from position i on, up to the first other character
RECURSIVE DigitsFrom(_, _, _)
DigitsFrom(s, i, acc) ==
    IF i > Len(s) \/ ~IsDigit(s[i]) THEN acc
    ELSE DigitsFrom(s, i + 1, 10 * acc + (s[i] - 48))

\* parseFloat on a text made of an optional '-' and digits
ParseFloat(s) ==
    LET negative == Len(s) >= 1 /\ s[1] = 45
        start == IF negative THEN 2 ELSE 1
    IN  IF start > Len(s) \/ ~IsDigit(s[start]) THEN NaN
        ELSE [nan |-> FALSE,
              value |-> IF negative THEN 0 - DigitsFrom(s, start, 0) ELSE DigitsFrom(s, start, 0)]

RECURSIVE TrimStart(_)
TrimStart(s) == IF s # <<>> /\ Head(s) = 32 THEN TrimStart(Tail(s)) ELSE s

RECURSIVE TrimEnd(_)
TrimEnd(s) ==
    IF s # <<>> /\ s[Len(s)] = 32 THEN TrimEnd(SubSeq(s, 1, Len(s) - 1)) ELSE s

\* String.prototype.trim, the spaces being the white space
Trim(s) == TrimEnd(TrimStart(s))

\* findIndex(item => item.medicineName.toLowerCase() === name.toLowerCase()),
\* 1-based; 0 is JS's -1
RECURSIVE FindItemFrom(_, _, _)
FindItemFrom(list, medicineName, i) ==
    IF i > Len(list) THEN 0
    ELSE IF ToLowerCase(list[i].medicineName) = ToLowerCase(medicineName) THEN i
    ELSE FindItemFrom(list, medicineName, i + 1)

\* updatedInventory of handleItemAdd: the item replaces the one of that name
AddToList(list, newItem) ==
    LET existingIndex == FindItemFrom(list, newItem.medicineName, 1)
    IN  IF existingIndex > 0 THEN [list EXCEPT ![existingIndex] = newItem]
        ELSE Append(list, newItem)

\* updatedInventory of handleSlipUpload: an item of that name keeps its name
\* and takes the price and stock
RECURSIVE MergeSlip(_, _)
MergeSlip(list, parsedItems) ==
    IF parsedItems = <<>> THEN list
    ELSE LET newItem == Head(parsedItems)
             existingIndex == FindItemFrom(list, newItem.medicineName, 1)
         IN  MergeSlip(IF existingIndex > 0
                       THEN [list EXCEPT ![existingIndex].price = newItem.price,
                                         ![existingIndex].stock = newItem.stock]
                       ELSE Append(list, newItem),
                       Tail(parsedItems))

\* handleItemAdd: the list is stored and shown, then the index is updated
HandleItemAdd(pharmacyId, newItem) ==
    /\ inventory' = [inventory EXCEPT ![pharmacyId] = AddToList(@, newItem)]
    /\ UpdateCall(pharmacyId, <<newItem>>)
    /\ UNCHANGED <<regHist, rest>>

\* handleAddItem, the submit handler of the dashboard's form: nothing happens
\* unless the name is not blank and the price parses to a number above 0
HandleAddItem(pharmacyId, newMedicineName, newMedicinePrice) ==
    LET price == ParseFloat(newMedicinePrice)
    IN  IF Trim(newMedicineName) # <<>> /\ ~price.nan /\ price.value > 0
        THEN HandleItemAdd(pharmacyId,
                           [medicineName |-> Trim(newMedicineName), price |-> price.value,
                            stock |-> Available])
        ELSE UNCHANGED vars

\* handleSlipUpload, parsedItems being what parsePriceSlip resolved to: an empty
\* list is an error shown to the owner, any other is merged and uploaded as it is
HandleSlipUpload(pharmacyId, parsedItems) ==
    IF Len(parsedItems) = 0
    THEN UNCHANGED vars
    ELSE /\ inventory' = [inventory EXCEPT ![pharmacyId] = MergeSlip(@, parsedItems)]
         /\ UpdateCall(pharmacyId, parsedItems)
         /\ UNCHANGED <<regHist, rest>>

\* what is typed in the form: "Pa", " q " and " "; "50", "0", "-5", "" and "x"
NameTexts == {<<80, 97>>, <<32, 113, 32>>, <<32>>}

PriceTexts == {<<53, 48>>, <<48>>, <<45, 53>>, <<>>, <<120>>}

\* the records the extraction service reads from a price slip: a medicine name
\* with the price and the stock read for it
SlipItems ==
    {[medicineName |-> <<80, 97>>, price |-> 50, stock |-> Available],
     [medicineName |-> <<112, 65>>, price |-> 0, stock |-> Available],
     [medicineName |-> <<113>>, price |-> 65, stock |-> Unavailable]}

\* slips of no, one or two lines
SlipBatches ==
    {<<>>} \cup {<<a>> : a \in SlipItems}
        \cup {<<ab[1], ab[2]>> : ab \in {x \in SlipItems \X SlipItems : x[1] # x[2]}}

\* the owners adding items by hand and by price slip
NextOwner ==
    \/ \E pharmacyId \in PharmacyIds, newMedicineName \in NameTexts,
          newMedicinePrice \in PriceTexts :
           HandleAddItem(pharmacyId, newMedicineName, newMedicinePrice)
    \/ \E pharmacyId \in PharmacyIds, parsedItems \in SlipBatches :
           HandleSlipUpload(pharmacyId, parsedItems)

SpecOwner == Init /\ [][NextOwner]_vars

\* the whole service.  The index functions write globalInventory alone and
\* registerOrGetPharmacy writes dynamicPharmacies alone, each saving the rest of
\* the database as it loaded it, so the two managers are also explored apart
\* (SpecIndex, SpecRegistry), each with the inputs its properties need.
Next ==
    \/ \E pharmacyId \in PharmacyIds, items \in Batches : UpsertMany(pharmacyId, items)
    \/ \E pharmacyId \in PharmacyIds, medicineName \in MedicineNames, stock \in StockStatuses :
           SetStatus(pharmacyId, medicineName, stock)
    \/ \E pharmacyId \in PharmacyIds, medicineName \in MedicineNames :
           Remove(pharmacyId, medicineName)
    \/ \E login \in Logins : Register(login)
    \/ \E userLocation \in UserLocations, medicineName \in MedicineNames :
           FindNearby(userLocation, medicineName)
    \/ List
    \/ \E medicineName \in MedicineNames : HasMedicine(medicineName)
    \/ \E pharmacyId \in PharmacyIds, medicineName \in MedicineNames :
           EntryFor(pharmacyId, medicineName)

Spec == Init /\ [][Next]_vars

\* the inventory index manager alone: owners uploading, updating and deleting
NextIndex ==
    \/ \E pharmacyId \in PharmacyIds, items \in Batches : UpsertMany(pharmacyId, items)
    \/ \E pharmacyId \in PharmacyIds, medicineName \in MedicineNames, stock \in StockStatuses :
           SetStatus(pharmacyId, medicineName, stock)
    \/ \E pharmacyId \in PharmacyIds, medicineName \in MedicineNames :
           Remove(pharmacyId, medicineName)

SpecIndex == Init /\ [][NextIndex]_vars

\* the registry manager, with the first owner's uploads and deletions between
\* registrations
NextRegistry ==
    \/ \E login \in Logins : Register(login)
    \/ \E items \in SeedBatches : UpsertMany(1001, items)
    \/ Remove(1001, <<112, 65>>)

SpecRegistry == Init /\ [][NextRegistry]_vars

\* the names typed in a search or written on a slip: the medicine names,
\* "Constructor" and "__proto__"
ConstructorName == <<67, 111, 110, 115, 116, 114, 117, 99, 116, 111, 114>>

TypedNames == MedicineNames \cup {ConstructorName, ProtoKey}

\* the uploads, and one that lists a medicine called "Constructor"
TypedBatches ==
    SeedBatches \cup
        {<<[medicineName |-> ConstructorName, price |-> 50, stock |-> Available]>>}

\* the lookups, between the owners' uploads, status changes and deletions
NextLookup ==
    \/ \E pharmacyId \in PharmacyIds, items \in TypedBatches : UpsertMany(pharmacyId, items)
    \/ \E pharmacyId \in PharmacyIds, stock \in StockStatuses :
           SetStatus(pharmacyId, <<80, 97>>, stock)
    \/ \E pharmacyId \in PharmacyIds, medicineName \in MedicineNames :
           Remove(pharmacyId, medicineName)
    \/ \E medicineName \in TypedNames : HasMedicine(medicineName)
    \/ \E pharmacyId \in PharmacyIds, medicineName \in TypedNames :
           EntryFor(pharmacyId, medicineName)

SpecLookup == Init /\ [][NextLookup]_vars

(***************************************************************************)
(* Properties of the inventory index (SpecIndex)                           *)
(***************************************************************************)
Inventory == GetDb(store).globalInventory

\* C4: after any sequence of upsertMany, setStatus and remove, every medicine's
\* collection holds at most one StockEntry per pharmacyId.
C4_OneEntryPerPharmacy ==
    \A key \in DOMAIN Inventory :
        \A i, j \in 1..Len(Inventory[key]) :
            Inventory[key][i].pharmacyId = Inventory[key][j].pharmacyId => i = j

\* a batch that names one medicine twice, in two spellings, was upserted for a
\* pharmacy into a collection another pharmacy is in: it holds the two of them
C4_Witness ==
    /\ last.op = "updateGlobalInventory"
    /\ Len(last.args.items) = 2
    /\ last.args.items[1].medicineName # last.args.items[2].medicineName
    /\ ToLowerCase(last.args.items[1].medicineName) = ToLowerCase(last.args.items[2].medicineName)
    /\ LET key == ToLowerCase(last.args.items[1].medicineName)
       IN  /\ key \in DOMAIN GetDb(last.before).globalInventory
           /\ FindIndex(GetDb(last.before).globalInventory[key], last.args.pharmacyId) > 0
           /\ Len(Inventory[key]) = 2

\* C5: no medicine key of the persisted index maps to an empty collection; a
\* key whose last entry is removed is deleted in the same call.
C5_NoEmptyCollection ==
    /\ \A key \in DOMAIN Inventory : Len(Inventory[key]) > 0
    /\ (/\ last.op = "deleteFromGlobalInventory"
        /\ ToLowerCase(last.args.medicineName) \in DOMAIN GetDb(last.before).globalInventory
        /\ \A e \in DOMAIN GetDb(last.before).globalInventory[ToLowerCase(last.args.medicineName)] :
              GetDb(last.before).globalInventory[ToLowerCase(last.args.medicineName)][e].pharmacyId
                  = last.args.pharmacyId)
       => ToLowerCase(last.args.medicineName) \notin DOMAIN Inventory

\* remove has just deleted the only entry of a medicine, and with it the key,
\* while another medicine stays in the index
C5_Witness ==
    /\ last.op = "deleteFromGlobalInventory"
    /\ LET key == ToLowerCase(last.args.medicineName)
           pre == GetDb(last.before).globalInventory
       IN  /\ key \in DOMAIN pre
           /\ Len(pre[key]) = 1
           /\ pre[key][1].pharmacyId = last.args.pharmacyId
           /\ key \notin DOMAIN Inventory
           /\ DOMAIN Inventory # {}

\* the registry after two owners registered, for the calls that read it
WithTwoPharmacies(db) ==
    LET a == [name |-> <<65, 112>>, address |-> "MG Road", phone |-> "111"]
        b == [name |-> <<66>>, address |-> "Brigade Road", phone |-> "222"]
        db1 == RegisterOrGetPharmacy(db, a, [lat |-> 12979, lon |-> 77594]).db
    IN  RegisterOrGetPharmacy(db1, b, [lat |-> 12988, lon |-> 77594]).db

\* C6: every key of the persisted index is a lower-cased medicine name, no two
\* keys are equal under case-folding, and every index operation called with a
\* name does what it does with the lower-cased name, so that two names that
\* differ only in letter case read and write the same collection.
C6_KeysCaseFolded ==
    LET db == GetDb(store)
    IN  /\ \A key \in DOMAIN Inventory : ToLowerCase(key) = key
        /\ \A k1, k2 \in DOMAIN Inventory : ToLowerCase(k1) = ToLowerCase(k2) => k1 = k2
        /\ \A n1 \in MedicineNames :
              LET n2 == ToLowerCase(n1)
                  withPharmacies == WithTwoPharmacies(db)
              IN  /\ \A id \in PharmacyIds :
                        /\ \A it \in Items :
                              UpdateGlobalInventory(db, id, <<[it EXCEPT !.medicineName = n1]>>)
                                = UpdateGlobalInventory(db, id, <<[it EXCEPT !.medicineName = n2]>>)
                        /\ \A stock \in StockStatuses :
                              /\ StatusEntryExists(db, id, n1) = StatusEntryExists(db, id, n2)
                              /\ UpdateStockStatusInGlobalInventory(db, id, n1, stock)
                                   = UpdateStockStatusInGlobalInventory(db, id, n2, stock)
                        /\ DeleteFromGlobalInventory(db, id, n1)
                             = DeleteFromGlobalInventory(db, id, n2)
                        /\ GetMedicineDetailsForPharmacy(db, id, n1)
                             = GetMedicineDetailsForPharmacy(db, id, n2)
                  /\ CheckMedicineLocally(db, n1) = CheckMedicineLocally(db, n2)
                  /\ \A userLocation \in UserLocations :
                        FindNearbyPharmacies(withPharmacies, userLocation, n1)
                          = FindNearbyPharmacies(withPharmacies, userLocation, n2)

\* an entry uploaded as "Pa" had its stock changed by a call that named "pA":
\* the index still has the one key "pa"
C6_Witness ==
    /\ last.op = "updateStockStatusInGlobalInventory"
    /\ last.args.medicineName = <<112, 65>>
    /\ last.saved
    /\ DOMAIN Inventory = {<<112, 97>>}
    /\ GetMedicineDetailsForPharmacy(GetDb(store), last.args.pharmacyId, <<80, 97>>).stock
         = last.args.stock
    /\ GetMedicineDetailsForPharmacy(GetDb(last.before), last.args.pharmacyId, <<80, 97>>).stock
         # last.args.stock

\* C11: upsertMany is idempotent: a call of upsertMany(pharmacyId, items) that
\* follows a call with the same pharmacyId and the same items leaves the
\* persisted database as the first call left it, whatever the index was before.
C11_UpsertIdempotent ==
    [][(/\ last.op = "updateGlobalInventory"
        /\ last'.op = "updateGlobalInventory"
        /\ last'.args = last.args) => store' = store]_vars

\* a batch naming one medicine in two spellings and with two prices was
\* upserted again into the index the same batch had left, other entries in it
C11_Witness ==
    /\ last.op = "updateGlobalInventory"
    /\ Len(last.args.items) = 2
    /\ last.args.items[1].medicineName # last.args.items[2].medicineName
    /\ last.args.items[1].price # last.args.items[2].price
    /\ last.before.present
    /\ store = last.before
    /\ GetDb(store) = UpdateGlobalInventory(GetDb(last.before), last.args.pharmacyId, last.args.items)
    /\ \E key \in DOMAIN Inventory : Len(Inventory[key]) = 2

\* C12: after any sequence of upsertMany, setStatus and remove, hasMedicine(m)
\* is true if and only if the index holds an entry of the medicine m for at
\* least one pharmacy, which is when entryFor(p, m) finds one: false once the
\* last entry of m was removed, true again after a later upsert.
C12_HasMedicineIffEntry ==
    (last.op = "checkMedicineLocally" /\ ~last.raised) =>
        LET db == GetDb(last.before)
            medicineName == last.args.medicineName
        IN  last.ret <=>
                \E pharmacyId \in PharmacyIds :
                    /\ ~LookupRaises(db, medicineName)
                    /\ GetMedicineDetailsForPharmacy(db, pharmacyId, medicineName).found

\* the position in the batch of the last item named as item i is, case aside
LastNamed(items, i) ==
    CHOOSE j \in i..Len(items) :
        /\ ToLowerCase(items[j].medicineName) = ToLowerCase(items[i].medicineName)
        /\ \A k \in (j + 1)..Len(items) :
              ToLowerCase(items[k].medicineName) # ToLowerCase(items[i].medicineName)

\* C18: after upsertMany(pharmacyId, items), entryFor(pharmacyId, name) returns
\* for every medicine named in the batch the price and stock of the last item
\* of the batch with that name under case-folding, a missing stock read as
\* Available; and the database was saved once for the whole batch.
C18_LastItemWins ==
    (last.op = "updateGlobalInventory" /\ ~last.raised) =>
        LET db == GetDb(store)
            items == last.args.items
        IN  /\ \A i \in 1..Len(items) :
                  LET item == items[LastNamed(items, i)]
                      entry == GetMedicineDetailsForPharmacy(db, last.args.pharmacyId,
                                                             items[i].medicineName)
                  IN  /\ entry.found
                      /\ entry.price = item.price
                      /\ entry.stock = IF item.stock = Missing THEN Available ELSE item.stock
            /\ last.saved
            /\ last.saves = 1
            /\ store.present

\* the batch <<"pA" at 65 Unavailable, "Pa" at 50 with no stock>> was upserted
\* for a pharmacy whose entry was at 65 Unavailable: the entry is at 50, Available
C18_Witness ==
    /\ last.op = "updateGlobalInventory"
    /\ Len(last.args.items) = 2
    /\ last.args.items[1] = [medicineName |-> <<112, 65>>, price |-> 65, stock |-> Unavailable]
    /\ last.args.items[2] = [medicineName |-> <<80, 97>>, price |-> 50, stock |-> Missing]
    /\ last.before.present
    /\ GetMedicineDetailsForPharmacy(GetDb(last.before), last.args.pharmacyId, <<112, 97>>)
         = [found |-> TRUE, price |-> 65, stock |-> Unavailable]
    /\ GetMedicineDetailsForPharmacy(GetDb(store), last.args.pharmacyId, <<112, 97>>)
         = [found |-> TRUE, price |-> 50, stock |-> Available]

\* the index the last call loaded
InventoryBefore == GetDb(last.before).globalInventory

\* the medicine and pharmacy of the last call have an entry in the index it loaded
EntryWasThere ==
    LET key == ToLowerCase(last.args.medicineName)
    IN  /\ key \in DOMAIN InventoryBefore
        /\ \E e \in 1..Len(InventoryBefore[key]) :
              InventoryBefore[key][e].pharmacyId = last.args.pharmacyId

\* C19: setStatus(pharmacyId, medicine, stock) changes the stock of the existing
\* entry of that medicine and pharmacy and nothing else, its price included;
\* when the key or the entry does not exist it creates nothing, leaves the
\* persisted state as it is and issues no save.
C19_StatusOnlyUpdate ==
    last.op = "updateStockStatusInGlobalInventory" =>
        LET key == ToLowerCase(last.args.medicineName)
            pre == InventoryBefore
            post == Inventory
        IN  IF EntryWasThere
            THEN /\ last.saved
                 /\ DOMAIN post = DOMAIN pre
                 /\ \A k \in DOMAIN pre \ {key} : post[k] = pre[k]
                 /\ Len(post[key]) = Len(pre[key])
                 /\ \A e \in 1..Len(pre[key]) :
                       IF pre[key][e].pharmacyId = last.args.pharmacyId
                       THEN post[key][e] = [pharmacyId |-> last.args.pharmacyId,
                                            price |-> pre[key][e].price,
                                            stock |-> last.args.stock]
                       ELSE post[key][e] = pre[key][e]
                 /\ GetDb(store).dynamicPharmacies = GetDb(last.before).dynamicPharmacies
            ELSE /\ store = last.before
                 /\ ~last.saved

\* the second pharmacy of a collection of two had its stock set to Unavailable:
\* its price stays and the first pharmacy's entry stays Available
C19_Witness ==
    /\ last.op = "updateStockStatusInGlobalInventory"
    /\ last.saved
    /\ last.args.stock = Unavailable
    /\ LET key == ToLowerCase(last.args.medicineName)
       IN  /\ key \in DOMAIN InventoryBefore
           /\ Len(InventoryBefore[key]) = 2
           /\ InventoryBefore[key][1].stock = Available
           /\ InventoryBefore[key][2] =
                  [pharmacyId |-> last.args.pharmacyId, price |-> 50, stock |-> Available]
           /\ Inventory[key][1] = InventoryBefore[key][1]
           /\ Inventory[key][2] =
                  [pharmacyId |-> last.args.pharmacyId, price |-> 50, stock |-> Unavailable]

(***************************************************************************)
(* The index functions on a database that holds a registry (SpecFrame):    *)
(* two owners have registered before the uploads start.                    *)
(***************************************************************************)
InitFrame ==
    /\ store = SaveDb(WithTwoPharmacies(EmptyDb))
    /\ last = NoCall
    /\ regHist = <<>>
    /\ inventory = NoInventories
    /\ tabs = NoTabs
    /\ persisted = {}
    /\ app = HomeApp
    /\ ownerPage = LoginPage

SpecFrame == InitFrame /\ [][NextIndex]_vars

\* the case-folded names of the medicines the last call was made for
CalledKeys ==
    IF last.op = "updateGlobalInventory"
    THEN {ToLowerCase(last.args.items[i].medicineName) : i \in 1..Len(last.args.items)}
    ELSE {ToLowerCase(last.args.medicineName)}

\* the entries of a medicine in an index, none when it has no key
EntriesOf(inv, key) == IF key \in DOMAIN inv THEN inv[key] ELSE <<>>

\* the entries of the pharmacies other than pharmacyId, in their order
RECURSIVE OthersIn(_, _)
OthersIn(coll, pharmacyId) ==
    IF coll = <<>> THEN <<>>
    ELSE (IF coll[1].pharmacyId = pharmacyId THEN <<>> ELSE <<coll[1]>>)
             \o OthersIn(Tail(coll), pharmacyId)

\* C20: upsertMany, setStatus and remove for pharmacy p and medicines M leave
\* the registry as it is, and with it every StockEntry of another pharmacy and
\* of a medicine outside M: same price, same stock, same order in its
\* collection; remove on a missing key or a missing entry leaves the index as
\* it is.
C20_FrameOfIndexCalls ==
    last.op \in {"updateGlobalInventory", "updateStockStatusInGlobalInventory",
                 "deleteFromGlobalInventory"} =>
        LET pre == InventoryBefore
            post == Inventory
            called == CalledKeys
        IN  /\ GetDb(store).dynamicPharmacies = GetDb(last.before).dynamicPharmacies
            /\ \A key \in (DOMAIN pre \cup DOMAIN post) \ called :
                  /\ key \in DOMAIN pre
                  /\ key \in DOMAIN post
                  /\ post[key] = pre[key]
            /\ \A key \in called :
                  OthersIn(EntriesOf(post, key), last.args.pharmacyId)
                      = OthersIn(EntriesOf(pre, key), last.args.pharmacyId)
            /\ (last.op = "deleteFromGlobalInventory" /\ ~EntryWasThere) => post = pre

\* remove took the first pharmacy's entry out of a collection of two, another
\* medicine being in the index and two pharmacies in the registry: the second
\* pharmacy's entry and the other medicine's collection are as they were
C20_Witness ==
    /\ last.op = "deleteFromGlobalInventory"
    /\ Len(GetDb(store).dynamicPharmacies) = 2
    /\ LET key == ToLowerCase(last.args.medicineName)
       IN  /\ key \in DOMAIN InventoryBefore
           /\ Len(InventoryBefore[key]) = 2
           /\ InventoryBefore[key][1].pharmacyId = last.args.pharmacyId
           /\ Inventory[key] = <<InventoryBefore[key][2]>>
           /\ \E other \in DOMAIN Inventory \ {key} : Inventory[other] = InventoryBefore[other]

(***************************************************************************)
(* Properties of the pharmacy registry (SpecRegistry)                      *)
(***************************************************************************)
Registry == AllPharmacies(GetDb(store))

RegistryBefore == AllPharmacies(GetDb(last.before))

\* the largest element of a non-empty set of numbers
SetMax(S) == CHOOSE m \in S : \A x \in S : x <= m

\* the name a call was made with, case-folded
CallKey(i) == ToLowerCase(regHist[i].login.details.name)

\* the name of the last registerOrGetPharmacy call was in the registry it loaded
NameKnownBefore ==
    \E k \in 1..Len(RegistryBefore) :
        ToLowerCase(RegistryBefore[k].name) = ToLowerCase(last.args.details.name)

RegisterMissed == last.op = "registerOrGetPharmacy" /\ ~NameKnownBefore

RegisterHit == last.op = "registerOrGetPharmacy" /\ NameKnownBefore

\* C7: no two pharmacies of the persisted registry have the same id, and every
\* id minted on a miss is max(ids of the loaded registry, 1000) + 1, greater
\* than every id of that registry and than the baseline 1000.
C7_UniqueMintedIds ==
    /\ \A i, j \in 1..Len(Registry) : Registry[i].id = Registry[j].id => i = j
    /\ RegisterMissed =>
          /\ last.ret.id = SetMax({RegistryBefore[i].id : i \in 1..Len(RegistryBefore)} \cup {1000}) + 1
          /\ \A i \in 1..Len(RegistryBefore) : last.ret.id > RegistryBefore[i].id
          /\ last.ret.id > 1000
          /\ Registry = Append(RegistryBefore, last.ret)

\* a third pharmacy was registered and got the id 1003
C7_Witness ==
    /\ RegisterMissed
    /\ Len(RegistryBefore) = 2
    /\ last.ret.id = 1003
    /\ Len(Registry) = 3

C9_CaseInsensitiveIdentity ==
    /\ \A i, j \in 1..Len(regHist) : CallKey(i) = CallKey(j) => regHist[i].id = regHist[j].id
    /\ \A i \in 1..Len(regHist) :
          Cardinality({k \in 1..Len(Registry) : ToLowerCase(Registry[k].name) = CallKey(i)}) = 1

\* "Ap" was registered and the next call, for "aP", got the same id
C9_Witness ==
    /\ Len(regHist) >= 2
    /\ regHist[Len(regHist) - 1].login.details.name = <<65, 112>>
    /\ regHist[Len(regHist)].login.details.name = <<97, 80>>
    /\ regHist[Len(regHist) - 1].id = regHist[Len(regHist)].id
    /\ Cardinality({k \in 1..Len(Registry) : ToLowerCase(Registry[k].name) = <<97, 112>>}) = 1

\* the first call made with the case-folded name of call j
FirstCall(j) == CHOOSE i \in 1..j : CallKey(i) = CallKey(j) /\ \A k \in 1..(i - 1) : CallKey(k) # CallKey(j)

\* C10: findOrCreate on a name that already exists (case-insensitively) is a
\* pure lookup: it returns the stored record, which has the first writer's
\* name, address, phone and coordinates, and leaves the persisted registry and
\* index unchanged, with no save issued.
C10_HitIsPureLookup ==
    RegisterHit =>
        LET first == regHist[FirstCall(Len(regHist))].login
        IN  /\ store = last.before
            /\ ~last.saved
            /\ \E k \in 1..Len(RegistryBefore) : RegistryBefore[k] = last.ret
            /\ FirstCall(Len(regHist)) < Len(regHist)
            /\ last.ret.id = regHist[FirstCall(Len(regHist))].id
            /\ last.ret.name = first.details.name
            /\ last.ret.address = first.details.address
            /\ last.ret.phone = first.details.phone
            /\ last.ret.lat = first.location.lat
            /\ last.ret.lon = first.location.lon

\* a second login under another spelling, address, phone and place got the
\* first writer's record back, the index holding entries
C10_Witness ==
    /\ RegisterHit
    /\ last.args.details.name # last.ret.name
    /\ last.args.details.address # last.ret.address
    /\ last.args.details.phone # last.ret.phone
    /\ last.args.location.lat # last.ret.lat
    /\ DOMAIN Inventory # {}
    /\ Len(Registry) = 2

(***************************************************************************)
(* The registry listing (SpecList).  The item read is whatever localStorage *)
(* holds under the key, so the registries drawn are not only those          *)
(* registerOrGetPharmacy builds: a list may hold one name twice, in one or  *)
(* two spellings, which is the case the Map of getRegisteredPharmacies is   *)
(* there for.                                                               *)
(***************************************************************************)
\* pharmacies of a stored registry
MaxList == 3

\* "Ap", "aP", "B", "c" and "A", each under its own id
ListPharmacies ==
    {[id |-> 1001, name |-> <<65, 112>>, address |-> "MG Road", phone |-> "111",
      lat |-> 12979, lon |-> 77594],
     [id |-> 1002, name |-> <<97, 80>>, address |-> "Brigade Road", phone |-> "222",
      lat |-> 12988, lon |-> 77594],
     [id |-> 1003, name |-> <<66>>, address |-> "MG Road", phone |-> "111",
      lat |-> 12979, lon |-> 77594],
     [id |-> 1004, name |-> <<99>>, address |-> "Brigade Road", phone |-> "222",
      lat |-> 12988, lon |-> 77594],
     [id |-> 1005, name |-> <<65>>, address |-> "MG Road", phone |-> "111",
      lat |-> 12979, lon |-> 77594]}

\* the registries of up to MaxList of these pharmacies, in every order
ListDbs ==
    UNION {{[globalInventory |-> <<>>, dynamicPharmacies |-> list] :
                list \in {l \in [1..n -> ListPharmacies] : \A i, j \in 1..n : l[i] = l[j] => i = j}} :
           n \in 0..MaxList}

InitList ==
    /\ store \in {SaveDb(db) : db \in ListDbs}
    /\ last = NoCall
    /\ regHist = <<>>
    /\ inventory = NoInventories
    /\ tabs = NoTabs
    /\ persisted = {}
    /\ app = HomeApp
    /\ ownerPage = LoginPage

\* one listing of the registry drawn
NextList == last.op = "none" /\ List

SpecList == InitList /\ [][NextList]_vars

\* name a comes before name b in alphabetical order, the case of the letters
\* left aside
AlphabeticallyBefore(a, b) ==
    LET x == ToLowerCase(a)
        y == ToLowerCase(b)
    IN  \E k \in 0..Min(Len(x), Len(y)) :
            /\ \A i \in 1..k : x[i] = y[i]
            /\ \/ k = Len(x) /\ k < Len(y)
               \/ k < Len(x) /\ k < Len(y) /\ x[k + 1] < y[k + 1]

\* C13: list() returns no two entries whose names are equal under case-folding;
\* it holds, for each case-folded name of the concatenation pre-seeded ++
\* owner-registered, the last entry with that name and nothing else; it is in
\* ascending alphabetical order of name; and the store is left as it was.
C13_ListDedupSorted ==
    last.op = "getRegisteredPharmacies" =>
        LET all == RegistryBefore
            ret == last.ret
        IN  /\ \A i, j \in 1..Len(ret) :
                  ToLowerCase(ret[i].name) = ToLowerCase(ret[j].name) => i = j
            /\ \A k \in 1..Len(all) :
                  (\A m \in (k + 1)..Len(all) : ToLowerCase(all[m].name) # ToLowerCase(all[k].name))
                      => \E i \in 1..Len(ret) : ret[i] = all[k]
            /\ \A i \in 1..Len(ret) :
                  \E k \in 1..Len(all) :
                      /\ ret[i] = all[k]
                      /\ \A m \in (k + 1)..Len(all) :
                            ToLowerCase(all[m].name) # ToLowerCase(all[k].name)
            /\ \A i, j \in 1..Len(ret) : i < j => AlphabeticallyBefore(ret[i].name, ret[j].name)
            /\ store = last.before
            /\ ~last.saved

\* the registry holds "B", "Ap" and then "aP": the list is "aP", the later of
\* the two spellings, followed by "B", whose character code is the smaller
C13_Witness ==
    /\ last.op = "getRegisteredPharmacies"
    /\ Len(RegistryBefore) = 3
    /\ RegistryBefore[1].name = <<66>>
    /\ RegistryBefore[2].name = <<65, 112>>
    /\ RegistryBefore[3].name = <<97, 80>>
    /\ Len(last.ret) = 2
    /\ last.ret[1] = RegistryBefore[3]
    /\ last.ret[2] = RegistryBefore[1]

(***************************************************************************)
(* The service on a medium it did not write (SpecMedium): nothing under    *)
(* the key, an empty string, a read that throws, text that is not JSON,    *)
(* JSON that is not a database, and a database.                            *)
(***************************************************************************)
\* a database with one pharmacy and its one upload
OnePharmacyDb ==
    [globalInventory |->
         SetKey(<<>>, <<112, 97>>, <<[pharmacyId |-> 1001, price |-> 50, stock |-> Available]>>),
     dynamicPharmacies |->
         <<[id |-> 1001, name |-> <<65, 112>>, address |-> "MG Road", phone |-> "111",
            lat |-> 12979, lon |-> 77594]>>]

MediumItems ==
    {NoItem, EmptyText, Unreadable,
     [present |-> TRUE, db |-> SyntaxError],
     [present |-> TRUE, db |-> JsonNull],
     [present |-> TRUE, db |-> ForeignObject],
     [present |-> TRUE, db |-> InventoryOnly],
     SaveDb(EmptyDb),
     SaveDb(OnePharmacyDb)}

InitMedium ==
    /\ store \in MediumItems
    /\ last = NoCall
    /\ regHist = <<>>
    /\ inventory = NoInventories
    /\ tabs = NoTabs
    /\ persisted = {}
    /\ app = HomeApp
    /\ ownerPage = LoginPage

\* one service call on the medium drawn
NextMedium ==
    /\ last.op = "none"
    /\ \/ \E pharmacyId \in PharmacyIds, items \in Batches : UpsertMany(pharmacyId, items)
       \/ \E pharmacyId \in PharmacyIds, medicineName \in MedicineNames, stock \in StockStatuses :
              SetStatus(pharmacyId, medicineName, stock)
       \/ \E pharmacyId \in PharmacyIds, medicineName \in MedicineNames :
              Remove(pharmacyId, medicineName)
       \/ \E login \in Logins : Register(login)
       \/ List
       \/ \E medicineName \in MedicineNames : HasMedicine(medicineName)
       \/ \E pharmacyId \in PharmacyIds, medicineName \in MedicineNames :
              EntryFor(pharmacyId, medicineName)
       \/ \E userLocation \in UserLocations, medicineName \in MedicineNames :
              FindNearby(userLocation, medicineName)

SpecMedium == InitMedium /\ [][NextMedium]_vars

\* the item holds a database: an object with an index and a registry
ValidItem(item) ==
    /\ item.present
    /\ Has(item.db, "globalInventory")
    /\ Has(item.db, "dynamicPharmacies")

\* C16: load never fails visibly: whenever the item is empty, corrupt or
\* unreadable, the service call run on it started from the empty state
\* {registry: [], index: {}} and completed without raising to its caller.
C16_LoadNeverFails ==
    (last.op # "none" /\ ~ValidItem(last.before)) =>
        /\ GetDb(last.before) = EmptyDb
        /\ ~last.raised

(***************************************************************************)
(* The nearby-match engine on registries larger than the result cap        *)
(* (SpecNearby).  The databases are those n registrations and the owners'  *)
(* uploads leave: ids 1001..1000+n in registration order, and one entry    *)
(* per pharmacy that uploaded the medicine "pa".                           *)
(***************************************************************************)
\* pharmacies of a small registry, every choice of place and stock made
SmallPharm == 3

\* pharmacies of a large registry
MaxPharm == 17

\* where pharmacy i of n stands in the arrangement: in order, in reverse order,
\* alternating between the two ends, or two by two
Rank(arrangement, i, n) ==
    CASE arrangement = "asc" -> i
      [] arrangement = "desc" -> n + 1 - i
      [] arrangement = "ends" -> IF i % 2 = 1 THEN (i + 1) \div 2 ELSE n + 1 - (i \div 2)
      [] OTHER -> (i + 1) \div 2

NearbyPharmacy(i, lat) ==
    [id |-> BaselineId + i, name |-> <<80, 64 + i>>, address |-> "MG Road", phone |-> "111",
     lat |-> lat, lon |-> 77594]

\* what a pharmacy uploaded for the medicine: nothing, or a price and a stock
Uploads ==
    {[has |-> FALSE, price |-> 0, stock |-> Unavailable],
     [has |-> TRUE, price |-> 50, stock |-> Available],
     [has |-> TRUE, price |-> 60, stock |-> Available],
     [has |-> TRUE, price |-> 65, stock |-> Available],
     [has |-> TRUE, price |-> 50, stock |-> Unavailable]}

\* the collection the uploads make, in the order of the pharmacies
RECURSIVE CollectionOf(_, _)
CollectionOf(uploads, i) ==
    IF i > Len(uploads) THEN <<>>
    ELSE (IF uploads[i].has
          THEN <<[pharmacyId |-> BaselineId + i, price |-> uploads[i].price,
                  stock |-> uploads[i].stock]>>
          ELSE <<>>) \o CollectionOf(uploads, i + 1)

NearbyDb(lats, uploads) ==
    LET collection == CollectionOf(uploads, 1)
    IN  [globalInventory |->
             IF collection = <<>> THEN <<>> ELSE SetKey(<<>>, <<112, 97>>, collection),
         dynamicPharmacies |-> [i \in 1..Len(lats) |-> NearbyPharmacy(i, lats[i])]]

\* small registries: every pharmacy 1 or 2 km north of the first user location
SmallDbs ==
    UNION {{NearbyDb(lats, uploads) : lats \in [1..n -> {12979, 12988}],
                                      uploads \in [1..n -> Uploads]} : n \in 0..SmallPharm}

\* large registries: the first a pharmacies of the stock arrangement have the
\* medicine Available, the next b - a have it Unavailable, the others have no
\* entry; the places follow the place arrangement, 1 km apart
LargeUploads(n, a, b, stocks) ==
    [i \in 1..n |->
        LET r == Rank(stocks, i, n)
        IN  IF r <= a THEN [has |-> TRUE, price |-> 50 + 5 * (i % 4), stock |-> Available]
            ELSE IF r <= b THEN [has |-> TRUE, price |-> 50, stock |-> Unavailable]
            ELSE [has |-> FALSE, price |-> 0, stock |-> Unavailable]]

LargeDbs ==
    UNION {{NearbyDb([i \in 1..n |-> 12970 + 9 * Rank(places, i, n)], LargeUploads(n, a, b, stocks)) :
                a \in 0..n, b \in 0..n, stocks \in {"asc", "desc", "ends"},
                places \in {"asc", "desc", "ends", "pairs"}} :
           n \in (MAX_RESULTS - 2)..MaxPharm}

\* pharmacies of a registry where none has the medicine Available
CapPharm == 20

\* registries well over the cap with no pharmacy Available: the first b
\* pharmacies of the stock arrangement have the medicine Unavailable, the others
\* have no entry; the places are 1 km apart, the nearest 1 km from the first
\* user location
CapDbs ==
    UNION {{NearbyDb([i \in 1..n |-> 12970 + 9 * Rank(places, i, n)], LargeUploads(n, 0, b, stocks)) :
                b \in 0..n, stocks \in {"asc", "desc", "ends"},
                places \in {"asc", "desc", "ends", "pairs"}} :
           n \in (MAX_RESULTS + 3)..CapPharm}

InitNearby ==
    /\ store \in {SaveDb(db) : db \in SmallDbs \cup LargeDbs \cup CapDbs}
    /\ last = NoCall
    /\ regHist = <<>>
    /\ inventory = NoInventories
    /\ tabs = NoTabs
    /\ persisted = {}
    /\ app = HomeApp
    /\ ownerPage = LoginPage

\* one search on the database drawn, for a medicine or for "Constructor"
NextNearby ==
    /\ last.op = "none"
    /\ \E userLocation \in UserLocations, medicineName \in MedicineNames \cup {ConstructorName} :
           FindNearby(userLocation, medicineName)

SpecNearby == InitNearby /\ [][NextNearby]_vars

(***************************************************************************)
(* Properties of the nearby-match engine (SpecNearby)                      *)
(***************************************************************************)
\* a search has returned its result
Searched == last.op = "findNearbyPharmacies" /\ ~last.raised

\* the StockEntry collection of the medicine searched for
SearchedCollection ==
    LET key == ToLowerCase(last.args.medicineName)
    IN  IF key \in DOMAIN Inventory THEN Inventory[key] ELSE <<>>

\* the positions in the registry of the pharmacies that have the medicine Available
AvailableAt ==
    LET registry == Registry
        collection == SearchedCollection
    IN  {i \in 1..Len(registry) :
            \E e \in 1..Len(collection) :
                /\ collection[e].pharmacyId = registry[i].id
                /\ collection[e].stock = Available}

\* the price pharmacy i of the registry asks for the medicine
PriceAt(i) ==
    LET collection == SearchedCollection
        id == Registry[i].id
        e == CHOOSE e \in 1..Len(collection) : collection[e].pharmacyId = id
    IN  collection[e].price

\* distance_km * 10 + price; Distance10 is distance_km * 10
ScoreAt(i) == Distance10(last.args.userLocation, Registry[i]) + PriceAt(i)

\* the positions in the result of the entries marked best option
BestAt == {j \in 1..Len(last.ret) : last.ret[j].isBestOption}

\* C1: findNearby returns every pharmacy whose stock for the medicine is
\* Available, however many there are: with k Available pharmacies and n others
\* the result holds all k and has size max(k, min(15, k + n)).
C1_AllAvailableIncluded ==
    Searched =>
        LET available == AvailableAt
            registry == Registry
            k == Cardinality(available)
            n == Len(registry) - k
        IN  /\ \A i \in available :
                  \E j \in 1..Len(last.ret) :
                      last.ret[j].id = registry[i].id /\ last.ret[j].stock = Available
            /\ Len(last.ret) = Max(k, Min(15, k + n))

\* sixteen pharmacies have the medicine Available and another does not: the
\* result is the sixteen
C1_Witness ==
    /\ Searched
    /\ Cardinality(AvailableAt) = 16
    /\ Len(Registry) > 16
    /\ Len(last.ret) = 16

\* C2: exactly one entry of the result is marked best option when at least one
\* pharmacy has the medicine Available, none when no pharmacy has, and an entry
\* marked best is one whose stock is Available.
C2_OneBestOption ==
    Searched =>
        LET available == AvailableAt
            registry == Registry
            best == BestAt
        IN  /\ available # {} => Cardinality(best) = 1
            /\ available = {} => best = {}
            /\ \A j \in best :
                  /\ last.ret[j].stock = Available
                  /\ \E i \in available : registry[i].id = last.ret[j].id

\* several pharmacies have the medicine Available, nearer ones do not, and one
\* entry is marked
C2_Witness ==
    /\ Searched
    /\ Cardinality(AvailableAt) >= 2
    /\ Cardinality(BestAt) = 1
    /\ \E j \in 1..Len(last.ret), b \in BestAt :
          last.ret[j].stock # Available /\ last.ret[j].distance < last.ret[b].distance

\* C3: the pharmacy marked best option minimizes distance_km * 10 + price over
\* all Available pharmacies, and among those that tie on the minimum it is the
\* first of the registry; A(2.0 km, 50) is marked rather than B(1.0 km, 65).
C3_BestMinimizesScore ==
    Searched =>
        LET available == AvailableAt
            score == [i \in available |-> ScoreAt(i)]
            registry == Registry
        IN  \A j \in BestAt :
                \E b \in available :
                    /\ registry[b].id = last.ret[j].id
                    /\ \A i \in available : score[b] <= score[i]
                    /\ \A i \in available : score[i] = score[b] => b <= i

\* B(1.0 km, 65) is registered before A(2.0 km, 50), both Available: A, with
\* score 70 against 75, is the one marked
C3_Witness ==
    /\ Searched
    /\ Len(Registry) = 2
    /\ AvailableAt = {1, 2}
    /\ Len(last.ret) = 2
    /\ last.ret[1].distance = 10 /\ last.ret[1].price = 65 /\ ~last.ret[1].isBestOption
    /\ last.ret[2].distance = 20 /\ last.ret[2].price = 50 /\ last.ret[2].isBestOption

\* C14: in the result of findNearby every entry is a pharmacy of the registry;
\* one that has no StockEntry for the medicine carries price 0, unit "-" and
\* stock Unavailable, one that has an entry carries its price and stock with
\* the unit "per strip"; for a medicine with no key in the index every entry is
\* Unavailable at price 0 and none is marked best option.
C14_DetailsFromEntry ==
    Searched =>
        LET registry == Registry
            collection == SearchedCollection
            ret == last.ret
        IN  /\ \A j \in 1..Len(ret) :
                  \E i \in 1..Len(registry) :
                      /\ registry[i].id = ret[j].id
                      /\ registry[i].name = ret[j].name
                      /\ IF \E e \in 1..Len(collection) : collection[e].pharmacyId = ret[j].id
                         THEN /\ \E e \in 1..Len(collection) :
                                    /\ collection[e].pharmacyId = ret[j].id
                                    /\ collection[e].price = ret[j].price
                                    /\ collection[e].stock = ret[j].stock
                              /\ ret[j].priceUnit = "per strip"
                         ELSE /\ ret[j].price = 0
                              /\ ret[j].priceUnit = "-"
                              /\ ret[j].stock = Unavailable
            /\ ToLowerCase(last.args.medicineName) \notin DOMAIN Inventory =>
                  /\ Len(ret) = Min(15, Len(registry))
                  /\ \A j \in 1..Len(ret) :
                        /\ ret[j].stock = Unavailable
                        /\ ret[j].price = 0
                        /\ ret[j].priceUnit = "-"
                        /\ ~ret[j].isBestOption

\* the medicine searched for has no key in an index that holds another
\* medicine, Available at some of the seventeen pharmacies: fifteen entries come
\* back, all Unavailable at price 0
C14_Witness ==
    /\ Searched
    /\ last.args.medicineName = <<113>>
    /\ <<112, 97>> \in DOMAIN Inventory
    /\ \E e \in 1..Len(Inventory[<<112, 97>>]) : Inventory[<<112, 97>>][e].stock = Available
    /\ Len(Registry) = 17
    /\ Len(last.ret) = 15
    /\ \A j \in 1..15 : last.ret[j].stock = Unavailable /\ last.ret[j].priceUnit = "-"

\* the positions in the registry of the pharmacies that are not in the result
ExcludedAt ==
    LET registry == Registry
        ret == last.ret
    IN  {i \in 1..Len(registry) : \A j \in 1..Len(ret) : ret[j].id # registry[i].id}

\* C15: the non-Available pharmacies findNearby includes are the nearest ones:
\* they are in ascending order of distance in the result, none of them is
\* farther than a pharmacy left out, and with fewer than 15 Available
\* pharmacies the result has min(15, size of the registry) entries; with none
\* Available and 20 others the 15 nearest come back and none is best option.
C15_NearestUnavailable ==
    Searched =>
        LET registry == Registry
            ret == last.ret
            userLocation == last.args.userLocation
            k == Cardinality(AvailableAt)
            excluded == ExcludedAt
        IN  /\ \A j1, j2 \in 1..Len(ret) :
                  (j1 < j2 /\ ret[j1].stock # Available /\ ret[j2].stock # Available)
                      => ret[j1].distance <= ret[j2].distance
            /\ \A j \in 1..Len(ret) :
                  ret[j].stock # Available =>
                      /\ ret[j].distance = Distance10(userLocation, [lat |-> ret[j].lat, lon |-> ret[j].lon])
                      /\ \A i \in excluded : ret[j].distance <= Distance10(userLocation, registry[i])
            /\ k < 15 => Len(ret) = Min(15, Len(registry))
            /\ (k = 0 /\ Len(registry) >= 15) =>
                  /\ Len(ret) = 15
                  /\ BestAt = {}

\* no pharmacy is Available and twenty are not, at 1 to 20 km and registered
\* farthest first: the result is the fifteen at 1 to 15 km, nearest first, none
\* marked
C15_Witness ==
    /\ Searched
    /\ Len(Registry) = 20
    /\ AvailableAt = {}
    /\ \A i \in 1..20 : Distance10(last.args.userLocation, Registry[i]) = 10 * (21 - i)
    /\ Len(last.ret) = 15
    /\ \A j \in 1..15 : last.ret[j].distance = 10 * j /\ ~last.ret[j].isBestOption


(***************************************************************************)
(* Properties of the owner page's uploads (SpecOwner)                      *)
(***************************************************************************)
\* C17: no StockEntry with a non-positive price reaches the index: whether the
\* owner adds an item by hand or uploads a price slip, an item whose price is
\* <= 0 is rejected before updateGlobalInventory, so every stored price is
\* above 0.
C17_PricesPositive ==
    /\ \A key \in DOMAIN Inventory :
          \A e \in 1..Len(Inventory[key]) : Inventory[key][e].price > 0
    /\ last.op = "updateGlobalInventory" =>
          \A i \in 1..Len(last.args.items) : last.args.items[i].price > 0

(***************************************************************************)
(* The search over the registry the owners made (SpecRank): registrations, *)
(* uploads and searches in any order.                                      *)
(***************************************************************************)
\* the owners of one street, so that their pharmacies are equally far from
\* wherever a search is made
StreetLogins == {login \in Logins : login.details.address = "MG Road"}

NextRank ==
    \/ \E login \in StreetLogins : Register(login)
    \/ \E pharmacyId \in PharmacyIds, items \in SeedBatches : UpsertMany(pharmacyId, items)
    \/ \E userLocation \in UserLocations, medicineName \in MedicineNames :
           FindNearby(userLocation, medicineName)

SpecRank == Init /\ [][NextRank]_vars

\* steps 1 to 9 of the engine run on the list getRegisteredPharmacies returns
\* in place of [...VERIFIED_PHARMACIES_IN_BANGALORE, ...dynamicPharmacies]
FindNearbyOverList(db, userLocation, medicineName) ==
    LET medicineKey == ToLowerCase(medicineName)
        pharmaciesWithStock ==
            IF medicineKey \in DOMAIN db.globalInventory
            THEN db.globalInventory[medicineKey] ELSE <<>>
        allBasePharmacies == GetRegisteredPharmacies(db)
        allPharmaciesWithDetails ==
            [i \in 1..Len(allBasePharmacies) |->
                WithDetails(allBasePharmacies[i], pharmaciesWithStock, userLocation)]
        availablePharmacies == SelectSeq(allPharmaciesWithDetails, IsAvailable)
        unavailablePharmacies ==
            SortByDistance(SelectSeq(allPharmaciesWithDetails, IsNotAvailable))
    IN  MarkBestOption(CombineResults(availablePharmacies, unavailablePharmacies),
                       availablePharmacies)

\* the entries of a list, their order aside
EntriesIn(list) == {list[i] : i \in 1..Len(list)}

\* the result has at most one entry per case-folded name and per id
OnePerNameAndId(ret) ==
    \A i, j \in 1..Len(ret) :
        (ToLowerCase(ret[i].name) = ToLowerCase(ret[j].name) \/ ret[i].id = ret[j].id)
            => i = j

\* C21: findNearby ranks the deduplicated list of list(): its result has at
\* most one entry per case-folded pharmacy name and per id, and is the same
\* set of entries as the algorithm gives when run over list() in place of the
\* concatenation of the pre-seeded and the owner-registered pharmacies.
C21_RanksDedupList ==
    Searched =>
        /\ OnePerNameAndId(last.ret)
        /\ EntriesIn(last.ret) =
               EntriesIn(FindNearbyOverList(GetDb(last.before), last.args.userLocation,
                                            last.args.medicineName))

(***************************************************************************)
(* Calls of several tabs on one localStorage item (SpecRace).  A service   *)
(* function runs from getDb to saveDb on the database it read; tabs are    *)
(* separate processes, so another tab's getDb or saveDb can fall between   *)
(* the two.  Each tab makes one call.                                      *)
(***************************************************************************)
\* the owners who register: "Ap" and "aP", one name in two spellings, and "B"
RaceLogins ==
    {[details |-> [name |-> <<65, 112>>, address |-> "MG Road", phone |-> "111"],
      location |-> [lat |-> 12979, lon |-> 77594]],
     [details |-> [name |-> <<97, 80>>, address |-> "Brigade Road", phone |-> "222"],
      location |-> [lat |-> 12988, lon |-> 77594]],
     [details |-> [name |-> <<66>>, address |-> "MG Road", phone |-> "111"],
      location |-> [lat |-> 12979, lon |-> 77594]]}

\* the calls a tab can make
RaceCalls ==
    {[op |-> "registerOrGetPharmacy", args |-> login] : login \in RaceLogins}
    \cup
    {[op |-> "updateGlobalInventory",
      args |-> [pharmacyId |-> 1001,
                items |-> <<[medicineName |-> <<80, 97>>, price |-> 50,
                             stock |-> Available]>>]],
     [op |-> "updateStockStatusInGlobalInventory",
      args |-> [pharmacyId |-> 1001, medicineName |-> <<80, 97>>, stock |-> Unavailable]],
     [op |-> "deleteFromGlobalInventory",
      args |-> [pharmacyId |-> 1001, medicineName |-> <<80, 97>>]]}

\* what the rest of a function body does with the database getDb gave it:
\* [db, saves, ret], db being what saveDb is called with when saves is true
CallOutcome(op, args, db) ==
    CASE op = "registerOrGetPharmacy" ->
             LET r == RegisterOrGetPharmacy(db, args.details, args.location)
             IN  [db |-> r.db, saves |-> ~r.hit, ret |-> r.ret]
      [] op = "updateGlobalInventory" ->
             [db |-> UpdateGlobalInventory(db, args.pharmacyId, args.items),
              saves |-> TRUE, ret |-> <<>>]
      [] op = "updateStockStatusInGlobalInventory" ->
             [db |-> UpdateStockStatusInGlobalInventory(
                         db, args.pharmacyId, args.medicineName, args.stock),
              saves |-> StatusEntryExists(db, args.pharmacyId, args.medicineName),
              ret |-> <<>>]
      [] op = "deleteFromGlobalInventory" ->
             [db |-> DeleteFromGlobalInventory(db, args.pharmacyId, args.medicineName),
              saves |-> TRUE, ret |-> <<>>]

\* const db = getDb(): the tab enters the function and reads the item
Load(tab, call) ==
    /\ tabs[tab].pc = "idle"
    /\ tabs' = [tabs EXCEPT ![tab] = [pc |-> "loaded", op |-> call.op, args |-> call.args,
                                      db |-> GetDb(store)]]
    /\ UNCHANGED <<store, last, regHist, inventory, persisted, app, ownerPage>>

\* the tabs that have read the item and not yet finished their call
Loaded(tab) == {t \in Tabs \ {tab} : tabs[t].pc = "loaded"}

\* the database written in place of the one read, merged with what the item
\* holds by then
WrittenMerged(tab, outcome) ==
    LET now == GetDb(store)
    IN  IF tabs[tab].op = "registerOrGetPharmacy"
        THEN [now EXCEPT !.dynamicPharmacies = Append(@, outcome.ret)]
        ELSE [outcome.db EXCEPT !.dynamicPharmacies = now.dynamicPharmacies]

\* the index functions writing a database of their own, the index alone
WrittenIndexAlone(tab, outcome) ==
    IF tabs[tab].op = "registerOrGetPharmacy"
    THEN outcome.db
    ELSE [outcome.db EXCEPT !.dynamicPharmacies = <<>>]

\* saveDb(db): the whole database the tab read, with the call's change
Written(tab, outcome) == outcome.db

\* the rest of the function body, to its saveDb and its return
Finish(tab) ==
    /\ tabs[tab].pc = "loaded"
    /\ LET outcome == CallOutcome(tabs[tab].op, tabs[tab].args, tabs[tab].db)
           minted == tabs[tab].op = "registerOrGetPharmacy" /\ outcome.saves
           seen == {[p EXCEPT !.overwritten = @ \/ (outcome.saves /\ tab \in p.readers)] :
                       p \in persisted}
       IN  /\ store' = IF outcome.saves THEN SaveDb(Written(tab, outcome)) ELSE store
           /\ tabs' = [tabs EXCEPT ![tab] = [pc |-> "done", op |-> tabs[tab].op,
                                             args |-> tabs[tab].args, db |-> tabs[tab].db,
                                             ret |-> outcome.ret, saved |-> outcome.saves]]
           /\ persisted' =
                  IF minted
                  THEN seen \cup {[pharmacy |-> outcome.ret, readers |-> Loaded(tab),
                                   overwritten |-> FALSE]}
                  ELSE seen
    /\ UNCHANGED <<last, regHist, inventory, app, ownerPage>>

NextRace ==
    \/ \E tab \in Tabs, call \in RaceCalls : Load(tab, call)
    \/ \E tab \in Tabs : Finish(tab)

SpecRace == Init /\ [][NextRace]_vars

(***************************************************************************)
(* Properties of the calls of several tabs (SpecRace)                      *)
(***************************************************************************)
\* the records of the registry the item holds
Registered == {Registry[i] : i \in 1..Len(Registry)}

\* two tabs have returned from registerOrGetPharmacy for one name, case
\* aside, with two ids
TwoIdsForOneName(a, b) ==
    /\ a # b
    /\ tabs[a].pc = "done" /\ tabs[a].op = "registerOrGetPharmacy"
    /\ tabs[b].pc = "done" /\ tabs[b].op = "registerOrGetPharmacy"
    /\ ToLowerCase(tabs[a].args.details.name) = ToLowerCase(tabs[b].args.details.name)
    /\ tabs[a].ret.id # tabs[b].ret.id

\* C22: when the getDb and saveDb steps of registerOrGetPharmacy calls
\* interleave, two registrations of one new name can return two ids; they do
\* so only when each had read the database before the other saved, both then
\* save a new record, and the later save overwrites the record of the earlier:
\* the registry never holds both.
C22_RaceTwoIds ==
    \A a, b \in Tabs :
        TwoIdsForOneName(a, b) =>
            /\ tabs[a].saved /\ tabs[b].saved
            /\ FindByName(AllPharmacies(tabs[a].db), tabs[b].args.details.name) = 0
            /\ FindByName(AllPharmacies(tabs[b].db), tabs[a].args.details.name) = 0
            /\ ~(tabs[a].ret \in Registered /\ tabs[b].ret \in Registered)

\* "Ap" and "aP" were registered by two tabs under the ids 1001 and 1002; the
\* registry holds the record of the tab that saved last and not the other's
C22_Witness ==
    \E a, b \in Tabs :
        /\ TwoIdsForOneName(a, b)
        /\ tabs[a].ret.id = 1001 /\ tabs[b].ret.id = 1002
        /\ tabs[a].ret \in Registered
        /\ tabs[b].ret \notin Registered

\* C23: a pharmacy is never deleted: once registerOrGetPharmacy has saved a
\* pharmacy, the registry holds it, with its id and its name, in every later
\* state, however the getDb and saveDb steps of the calls made after that save
\* interleave (a call that had read the database before the save is not one
\* of them).
C23_NeverDeleted ==
    \A p \in persisted : ~p.overwritten => p.pharmacy \in Registered

\* after a pharmacy was saved two other tabs read the database, both before
\* either saved, and both saved, one of them an upload for the pharmacy: the
\* registry holds the pharmacy
C23_Witness ==
    \E p \in persisted, a, b \in Tabs :
        /\ a # b
        /\ ~p.overwritten /\ p.readers = {}
        /\ tabs[a].pc = "done" /\ tabs[a].saved /\ tabs[a].op = "updateGlobalInventory"
        /\ tabs[b].pc = "done" /\ tabs[b].saved /\ tabs[b].op = "registerOrGetPharmacy"
        /\ tabs[a].db = tabs[b].db
        /\ p.pharmacy \in {tabs[a].db.dynamicPharmacies[i] :
                              i \in 1..Len(tabs[a].db.dynamicPharmacies)}
        /\ p.pharmacy \in Registered

(***************************************************************************)
(* Calls whose localStorage.setItem may throw (SpecQuota): the item is     *)
(* full, or the storage is closed to writes.                               *)
(***************************************************************************)
\* saveDb removing the item before it writes it: a failed write leaves none
SaveDbClearsFirst(item, db, ok) == IF ok THEN SaveDb(db) ELSE NoItem

\* saveDb: setItem either replaces the item or throws and leaves it as it was;
\* the catch logs the error and saveDb returns
TrySaveDb(item, db, ok) == IF ok THEN SaveDb(db) ELSE item

\* the calls made: those of RaceCalls and an upload of the second owner
QuotaCalls ==
    RaceCalls \cup
        {[op |-> "updateGlobalInventory",
          args |-> [pharmacyId |-> 1002,
                    items |-> <<[medicineName |-> <<113>>, price |-> 65,
                                 stock |-> Unavailable]>>]]}

\* one call from getDb to its return, ok telling whether setItem succeeds
QuotaCall(call, ok) ==
    LET db == GetDb(store)
        outcome == CallOutcome(call.op, call.args, db)
    IN  /\ store' = IF outcome.saves THEN TrySaveDb(store, outcome.db, ok) ELSE store
        /\ last' = [op |-> call.op, args |-> call.args, ret |-> outcome.ret,
                    saved |-> outcome.saves, before |-> store, raised |-> FALSE,
                    written |-> outcome.saves /\ ok]
        /\ UNCHANGED <<regHist, inventory, rest>>

NextQuota == \E call \in QuotaCalls, ok \in BOOLEAN : QuotaCall(call, ok)

SpecQuota == Init /\ [][NextQuota]_vars

\* saveDb was called and its write failed
WriteFailed == last.op # "none" /\ last.saved /\ ~last.written

\* C24: when the write of saveDb fails, updateGlobalInventory,
\* updateStockStatusInGlobalInventory, deleteFromGlobalInventory and
\* registerOrGetPharmacy return without raising, and the item is what it was
\* before the call: a later getDb reads the database of before the call.
C24_FailedSaveChangesNothing ==
    WriteFailed =>
        /\ ~last.raised
        /\ store = last.before
        /\ GetDb(store) = GetDb(last.before)
        /\ last.op = "registerOrGetPharmacy" =>
               /\ last.ret.id = MaxId(RegistryBefore) + 1
               /\ last.ret \notin Registered

\* a second pharmacy was registered and the write failed: the owner was
\* returned the id 1002 and the registry holds the first pharmacy alone
C24_Witness ==
    /\ WriteFailed
    /\ last.op = "registerOrGetPharmacy"
    /\ last.ret.id = 1002
    /\ Len(Registry) = 1
    /\ DOMAIN Inventory # {}

(***************************************************************************)
(* The pharmacy owner's page through its sessions (SpecSession): owners    *)
(* log in, pick a kept account, log out, and add, change and delete the    *)
(* items of the list shown.                                                *)
(***************************************************************************)
\* the load effect's migration: every stock that is not 'Out of Stock' becomes
\* Available
Migrate(list) ==
    [i \in 1..Len(list) |->
        [list[i] EXCEPT !.stock = IF @ = "Out of Stock" THEN Unavailable ELSE Available]]

\* the effect on [activeOwner]: the list kept under the owner's id, migrated
LoadInventory(owner) == Migrate(inventory[owner.id])

\* updatedOwners of handleLogin: the owner replaces the one kept under the id
RECURSIVE FindOwnerFrom(_, _, _)
FindOwnerFrom(owners, id, i) ==
    IF i > Len(owners) THEN 0
    ELSE IF owners[i].id = id THEN i
    ELSE FindOwnerFrom(owners, id, i + 1)

KeepOwner(owners, newOwner) ==
    LET existingOwnerIndex == FindOwnerFrom(owners, newOwner.id, 1)
    IN  IF existingOwnerIndex > 0 THEN [owners EXCEPT ![existingOwnerIndex] = newOwner]
        ELSE Append(owners, newOwner)

LoggedIn == ownerPage.activeOwner # NoOwner

\* handleLogin, with the load effect that follows setActiveOwner
HandleLogin(login) ==
    LET r == RegisterOrGetPharmacy(GetDb(store), login.details, login.location)
        newOwner == [name |-> login.details.name, address |-> login.details.address,
                     phone |-> login.details.phone, id |-> r.ret.id]
    IN  /\ ~LoggedIn
        /\ store' = IF r.hit THEN store ELSE SaveDb(r.db)
        /\ last' = [op |-> "registerOrGetPharmacy", args |-> login, ret |-> r.ret,
                    saved |-> ~r.hit, before |-> store, raised |-> FALSE]
        /\ ownerPage' = [activeOwner |-> newOwner,
                         savedOwners |-> KeepOwner(ownerPage.savedOwners, newOwner),
                         inventory |-> LoadInventory(newOwner)]
        /\ UNCHANGED <<regHist, inventory, tabs, persisted, app>>

\* handleOwnerSelect, with the load effect
HandleOwnerSelect(owner) ==
    /\ ~LoggedIn
    /\ ownerPage' = [ownerPage EXCEPT !.activeOwner = owner,
                                      !.inventory = LoadInventory(owner)]
    /\ UNCHANGED <<store, last, regHist, inventory, tabs, persisted, app>>

\* handleLogout, with the effect that empties the list shown
HandleLogout ==
    /\ LoggedIn
    /\ ownerPage' = [ownerPage EXCEPT !.activeOwner = NoOwner, !.inventory = <<>>]
    /\ UNCHANGED <<store, last, regHist, inventory, tabs, persisted, app>>

\* handleItemAdd of the owner logged in: the list shown with the item is kept
\* under the owner's id and shown, then the index is updated
OwnerItemAdd(newItem) ==
    LET pharmacyId == ownerPage.activeOwner.id
        updatedInventory == AddToList(ownerPage.inventory, newItem)
    IN  /\ LoggedIn
        /\ inventory' = [inventory EXCEPT ![pharmacyId] = updatedInventory]
        /\ ownerPage' = [ownerPage EXCEPT !.inventory = updatedInventory]
        /\ UpdateCall(pharmacyId, <<newItem>>)
        /\ UNCHANGED <<regHist, tabs, persisted, app>>

\* a call of updateStockStatusInGlobalInventory, from getDb to its return
StatusCall(pharmacyId, medicineName, stock) ==
    LET db == GetDb(store)
        args == [pharmacyId |-> pharmacyId, medicineName |-> medicineName, stock |-> stock]
        found == StatusEntryExists(db, pharmacyId, medicineName)
    IN  IF LookupRaises(db, medicineName)
        THEN /\ store' = store
             /\ last' = Raised("updateStockStatusInGlobalInventory", args)
        ELSE /\ store' = IF found
                         THEN SaveDb(UpdateStockStatusInGlobalInventory(
                                         db, pharmacyId, medicineName, stock))
                         ELSE store
             /\ last' = [op |-> "updateStockStatusInGlobalInventory", args |-> args,
                         ret |-> <<>>, saved |-> found, before |-> store, raised |-> FALSE]

\* updatedInventory of handleStockStatusChange
WithStatus(list, medicineName, newStatus) ==
    [i \in 1..Len(list) |->
        IF ToLowerCase(list[i].medicineName) = ToLowerCase(medicineName)
        THEN [list[i] EXCEPT !.stock = newStatus]
        ELSE list[i]]

\* handleStockStatusChange, called with the name of an item of the list shown
OwnerStockStatusChange(medicineName, newStatus) ==
    LET pharmacyId == ownerPage.activeOwner.id
        updatedInventory == WithStatus(ownerPage.inventory, medicineName, newStatus)
    IN  /\ LoggedIn
        /\ inventory' = [inventory EXCEPT ![pharmacyId] = updatedInventory]
        /\ ownerPage' = [ownerPage EXCEPT !.inventory = updatedInventory]
        /\ StatusCall(pharmacyId, medicineName, newStatus)
        /\ UNCHANGED <<regHist, tabs, persisted, app>>

\* a call of deleteFromGlobalInventory, from getDb to saveDb
DeleteCall(pharmacyId, medicineName) ==
    LET db == GetDb(store)
        args == [pharmacyId |-> pharmacyId, medicineName |-> medicineName]
    IN  IF LookupRaises(db, medicineName)
        THEN /\ store' = store
             /\ last' = Raised("deleteFromGlobalInventory", args)
        ELSE /\ store' = SaveDb(DeleteFromGlobalInventory(db, pharmacyId, medicineName))
             /\ last' = [op |-> "deleteFromGlobalInventory", args |-> args,
                         ret |-> <<>>, saved |-> TRUE, before |-> store, raised |-> FALSE]

\* updatedInventory of handleItemDelete
NotNamed(list, medicineName) ==
    SelectSeq(list, LAMBDA item : ToLowerCase(item.medicineName) # ToLowerCase(medicineName))

\* handleItemDelete, called with the name of an item of the list shown
OwnerItemDelete(medicineName) ==
    LET pharmacyId == ownerPage.activeOwner.id
        updatedInventory == NotNamed(ownerPage.inventory, medicineName)
    IN  /\ LoggedIn
        /\ inventory' = [inventory EXCEPT ![pharmacyId] = updatedInventory]
        /\ ownerPage' = [ownerPage EXCEPT !.inventory = updatedInventory]
        /\ DeleteCall(pharmacyId, medicineName)
        /\ UNCHANGED <<regHist, tabs, persisted, app>>

\* what the form adds: "Pa" at 50 and "q" at 65, each Available
FormItems ==
    {[medicineName |-> <<80, 97>>, price |-> 50, stock |-> Available],
     [medicineName |-> <<113>>, price |-> 65, stock |-> Available]}

\* the names of the items shown, which the rows' controls pass to the handlers
ShownNames == {ownerPage.inventory[i].medicineName : i \in 1..Len(ownerPage.inventory)}

NextSession ==
    \/ \E login \in RaceLogins : HandleLogin(login)
    \/ \E i \in 1..Len(ownerPage.savedOwners) : HandleOwnerSelect(ownerPage.savedOwners[i])
    \/ HandleLogout
    \/ \E newItem \in FormItems : OwnerItemAdd(newItem)
    \/ \E medicineName \in ShownNames, newStatus \in StockStatuses :
           OwnerStockStatusChange(medicineName, newStatus)
    \/ \E medicineName \in ShownNames : OwnerItemDelete(medicineName)

SpecSession == Init /\ [][NextSession]_vars

(***************************************************************************)
(* Properties of the owner's sessions (SpecSession)                        *)
(***************************************************************************)
\* the owners kept under an id
OwnersOf(id) ==
    {ownerPage.savedOwners[i] : i \in {j \in 1..Len(ownerPage.savedOwners) :
                                          ownerPage.savedOwners[j].id = id}}

\* C25: every StockEntry of the index references an existing pharmacy: its
\* pharmacyId is the id of one pharmacy of the registry, and that pharmacy is
\* the one the owner kept under that id registered, its name being the
\* owner's, case aside.
C25_EntriesReferencePharmacies ==
    \A key \in DOMAIN Inventory :
        \A e \in 1..Len(Inventory[key]) :
            LET id == Inventory[key][e].pharmacyId
                referenced == {i \in 1..Len(Registry) : Registry[i].id = id}
            IN  /\ Cardinality(referenced) = 1
                /\ Cardinality(OwnersOf(id)) = 1
                /\ \A i \in referenced, owner \in OwnersOf(id) :
                       ToLowerCase(owner.name) = ToLowerCase(Registry[i].name)

\* the owner of "B" is logged in under the id 1002, after the owner who
\* registered "Ap" and logged in again as "aP"; the index holds an entry of each
C25_Witness ==
    /\ LoggedIn
    /\ ownerPage.activeOwner.id = 1002
    /\ ownerPage.activeOwner.name = <<66>>
    /\ \E owner \in OwnersOf(1001) : owner.name = <<97, 80>>
    /\ \E i \in 1..Len(Registry) : Registry[i].id = 1001 /\ Registry[i].name = <<65, 112>>
    /\ \E key \in DOMAIN Inventory :
           {Inventory[key][e].pharmacyId : e \in 1..Len(Inventory[key])} = {1001, 1002}

\* C26: the owner's list and the index agree: each medicine shown in the list
\* of the owner logged in has the price and the stock status that
\* getMedicineDetailsForPharmacy finds for the owner's id, and each medicine
\* the index holds for that id is shown, after any additions, status changes
\* and deletions and after logging out and in again.
C26_ViewAgreesWithIndex ==
    LoggedIn =>
        LET pharmacyId == ownerPage.activeOwner.id
            db == GetDb(store)
            shown == ownerPage.inventory
        IN  /\ \A i \in 1..Len(shown) :
                   LET details == GetMedicineDetailsForPharmacy(
                                      db, pharmacyId, shown[i].medicineName)
                   IN  /\ details.found
                       /\ details.price = shown[i].price
                       /\ details.stock = shown[i].stock
            /\ \A key \in DOMAIN db.globalInventory :
                   FindIndex(db.globalInventory[key], pharmacyId) > 0 =>
                       \E i \in 1..Len(shown) : ToLowerCase(shown[i].medicineName) = key

(***************************************************************************)
(* The App component (src/App.tsx). app holds its React state; a handler   *)
(* runs to its first await in one step and leaves the awaited promise or   *)
(* geolocation request in app.pending, and its continuation is a later     *)
(* step. services/geminiService is not part of the sources: its functions  *)
(* resolve to, or reject with, any of the outcomes drawn below. last keeps *)
(* the handler or continuation that ran last and the epoch it belongs to.  *)
(***************************************************************************)
\* the user's actions a run may hold
MaxSearches == 3

\* four pharmacies: A 2 km north of the first user location, B, C and D 1 km
AppPharmacies ==
    <<NearbyPharmacy(1, 12988), NearbyPharmacy(2, 12979), NearbyPharmacy(3, 12979),
      NearbyPharmacy(4, 12979)>>

\* "pa" at A for 40, B for 65, C for 55, all Available, and at D Unavailable;
\* "q" at B only
AppDb ==
    [globalInventory |->
         SetKey(SetKey(<<>>, <<112, 97>>,
                       <<[pharmacyId |-> 1001, price |-> 40, stock |-> Available],
                         [pharmacyId |-> 1002, price |-> 65, stock |-> Available],
                         [pharmacyId |-> 1003, price |-> 55, stock |-> Available],
                         [pharmacyId |-> 1004, price |-> 50, stock |-> Unavailable]>>),
                <<113>>, <<[pharmacyId |-> 1002, price |-> 65, stock |-> Available]>>),
     dynamicPharmacies |-> AppPharmacies]

\* what the user types in the medicine box: " Pa", "q", "z" (in no index) and " "
SearchTexts == {<<32, 80, 97>>, <<113>>, <<122>>, <<32>>}

\* what the user types in the disease box: "flu" and " "
DiseaseTexts == {<<102, 108, 117>>, <<32>>}

\* type SortKey
SortKeys == {"distance", "price", "availability"}

\* what validateMedicineName resolves to; <<>> is a field left out
Validations ==
    {[valid |-> FALSE, reason |-> <<>>, correctedName |-> <<>>],
     [valid |-> FALSE, reason |-> <<110, 111>>, correctedName |-> <<>>],
     [valid |-> TRUE, reason |-> <<>>, correctedName |-> <<>>],
     [valid |-> TRUE, reason |-> <<>>, correctedName |-> <<90>>],
     [valid |-> TRUE, reason |-> <<>>, correctedName |-> <<80, 97>>]}

\* what getMedicineRecommendations resolves to: "", "Pa", "Pa, q" and " ,"
Recommendations == {<<>>, <<80, 97>>, <<80, 97, 44, 32, 113>>, <<32, 44>>}

\* navigator.geolocation.getCurrentPosition with no position asked yet
NoLocation == [lat |-> 0, lon |-> 0]

\* a promise or geolocation request of the handler run in the given epoch
Callback(kind, epoch, name, at) == [kind |-> kind, epoch |-> epoch, name |-> name, at |-> at]

\* { suggestion, original }; <<>> is the suggestion null
Confirmation(suggestion, original) ==
    [isNull |-> FALSE, suggestion |-> suggestion, original |-> original]

\* recommendations.split(','): the pieces between the commas
RECURSIVE SplitFrom(_, _, _)
SplitFrom(s, i, piece) ==
    IF i > Len(s) THEN <<piece>>
    ELSE IF s[i] = 44 THEN <<piece>> \o SplitFrom(s, i + 1, <<>>)
    ELSE SplitFrom(s, i + 1, Append(piece, s[i]))

IsNonEmpty(s) == s # <<>>

\* recommendations.split(',').map(m => m.trim()).filter(Boolean)
Choices(recommendations) ==
    LET pieces == SplitFrom(recommendations, 1, <<>>)
    IN  SelectSeq([i \in 1..Len(pieces) |-> Trim(pieces[i])], IsNonEmpty)

\* the comparator with the two isBestOption lines left out
CompareByKeyAlone(a, b, sortBy) ==
    CASE sortBy = "price" -> a.price - b.price
      [] sortBy = "distance" -> a.distance - b.distance
      [] sortBy = "availability" -> a.distance - b.distance
      [] OTHER -> 0

\* the comparator of sortedPharmacies
Compare(a, b, sortBy) ==
    IF a.isBestOption THEN 0 - 1
    ELSE IF b.isBestOption THEN 1
    ELSE CASE sortBy = "price" -> a.price - b.price
           [] sortBy = "distance" -> a.distance - b.distance
           [] sortBy = "availability" -> a.distance - b.distance
           [] OTHER -> 0

\* insertion of p after the entries the comparator does not put after it:
\* Array.prototype.sort is stable
RECURSIVE InsertSorted(_, _, _)
InsertSorted(sorted, p, sortBy) ==
    IF sorted = <<>> THEN <<p>>
    ELSE IF Compare(Head(sorted), p, sortBy) <= 0
         THEN <<Head(sorted)>> \o InsertSorted(Tail(sorted), p, sortBy)
         ELSE <<p>> \o sorted

\* sortedPharmacies: [...pharmacies].sort(comparator), what ResultsPage is given
RECURSIVE SortedPharmacies(_, _)
SortedPharmacies(pharmacies, sortBy) ==
    IF pharmacies = <<>> THEN <<>>
    ELSE InsertSorted(SortedPharmacies(SubSeq(pharmacies, 1, Len(pharmacies) - 1), sortBy),
                      pharmacies[Len(pharmacies)], sortBy)

\* handleMedicineSelect up to its return, called in the given epoch
MedicineSelect(a, medicine, epoch) ==
    LET asked == [a EXCEPT !.searchConfirmation = NoConfirmation,
                           !.pharmacies = <<>>,
                           !.medicineChoices = <<>>,
                           !.medicineDescription = NoText,
                           !.searchedMedicine = medicine,
                           !.locationError = NoText,
                           !.isLoading = TRUE,
                           !.statusText = Text("Getting your location...", <<>>)]
    IN  IF ~a.geolocation
        THEN [asked EXCEPT
                 !.isLoading = FALSE,
                 !.locationError = Text("Geolocation is not supported by your browser.", <<>>),
                 !.statusText = Text("Geolocation is not supported by your browser.", <<>>)]
        ELSE [asked EXCEPT
                 !.pending = @ \cup {Callback("getCurrentPosition", epoch, medicine, NoLocation)}]

\* the finally block with setIsLoading(false) left out
FinallyKeepsLoading(a) == [a EXCEPT !.statusText = NoText]

\* finally { setIsLoading(false); setStatusText(''); }
Finally(a) == [a EXCEPT !.isLoading = FALSE, !.statusText = NoText]

\* foundPharmacies.filter(p => p.stock === StockStatus.Available)
AvailableOnly(foundPharmacies) == SelectSeq(foundPharmacies, IsAvailable)

\* the try block of the position callback, getMedicineDescription and
\* findNearbyPharmacies both resolved
Found(a, medicine, foundPharmacies) ==
    [a EXCEPT !.medicineDescription = Text("description", medicine),
              !.pharmacies = AvailableOnly(foundPharmacies)]

\* catch (error) { setStatusText('Could not fetch pharmacy data.') }
CouldNotFetch(a) == [a EXCEPT !.statusText = Text("Could not fetch pharmacy data.", <<>>)]

\* the catch block of handleMedicineSearch
CouldNotValidate(a, trimmedMedicine) ==
    [a EXCEPT !.statusText = Text("Couldn't validate. You can search for it anyway.",
                                  trimmedMedicine),
              !.searchConfirmation = Confirmation(<<>>, trimmedMedicine),
              !.isLoading = FALSE]

\* the handler or continuation that ran last, the epoch of the user's action
\* it continues, and whether it ran its catch block
Ran(op, epoch, raised) == [op |-> op, epoch |-> epoch, raised |-> raised]

\* one more action of the user
NextEpoch == app.epoch + 1

\* the App on a database with pharmacies and entries, nothing searched yet, in
\* a browser with or without navigator.geolocation
InitApp ==
    /\ store = SaveDb(AppDb)
    /\ last = NoCall
    /\ regHist = <<>>
    /\ inventory = NoInventories
    /\ tabs = NoTabs
    /\ persisted = {}
    /\ app \in {[HomeApp EXCEPT !.geolocation = supported] : supported \in BOOLEAN}
    /\ ownerPage = LoginPage

\* handleMedicineSearch up to await checkMedicineLocally, from the home page
HandleMedicineSearch(medicine) ==
    LET trimmedMedicine == Trim(medicine)
    IN  /\ app.page = "home"
        /\ app.epoch < MaxSearches
        /\ IF trimmedMedicine = <<>>
           THEN UNCHANGED <<app, last>>
           ELSE /\ app' = [app EXCEPT
                              !.epoch = NextEpoch,
                              !.page = "results",
                              !.pharmacies = <<>>,
                              !.medicineChoices = <<>>,
                              !.searchConfirmation = NoConfirmation,
                              !.locationError = NoText,
                              !.isLoading = TRUE,
                              !.statusText = Text("Searching for...", trimmedMedicine),
                              !.pending = @ \cup {Callback("checkMedicineLocally", NextEpoch,
                                                           trimmedMedicine, NoLocation)}]
                /\ last' = Ran("handleMedicineSearch", NextEpoch, FALSE)
        /\ UNCHANGED <<store, regHist, inventory, tabs, persisted, ownerPage>>

\* handleDiseaseSearch up to await getMedicineRecommendations, from the home page
HandleDiseaseSearch(disease) ==
    /\ app.page = "home"
    /\ app.epoch < MaxSearches
    /\ IF Trim(disease) = <<>>
       THEN UNCHANGED <<app, last>>
       ELSE /\ app' = [app EXCEPT
                          !.epoch = NextEpoch,
                          !.isLoading = TRUE,
                          !.page = "results",
                          !.pharmacies = <<>>,
                          !.medicineChoices = <<>>,
                          !.searchConfirmation = NoConfirmation,
                          !.locationError = NoText,
                          !.statusText = Text("Finding medicine recommendations for...", disease),
                          !.pending = @ \cup {Callback("getMedicineRecommendations", NextEpoch,
                                                       disease, NoLocation)}]
            /\ last' = Ran("handleDiseaseSearch", NextEpoch, FALSE)
    /\ UNCHANGED <<store, regHist, inventory, tabs, persisted, ownerPage>>

\* the medicines the results page offers to search: renderMainContent shows the
\* confirmation buttons, or else the choices while there are no pharmacies
Offered ==
    IF app.page # "results" \/ app.isLoading THEN {}
    ELSE IF ~app.searchConfirmation.isNull
         THEN {app.searchConfirmation.suggestion, app.searchConfirmation.original} \ {<<>>}
    ELSE IF Len(app.medicineChoices) > 0 /\ Len(app.pharmacies) = 0
         THEN {app.medicineChoices[i] : i \in 1..Len(app.medicineChoices)}
    ELSE {}

\* handleMedicineSelect called by a button of the results page
HandleMedicineSelect(medicine) ==
    /\ medicine \in Offered
    /\ app.epoch < MaxSearches
    /\ app' = MedicineSelect([app EXCEPT !.epoch = NextEpoch], medicine, NextEpoch)
    /\ last' = Ran("handleMedicineSelect", NextEpoch, FALSE)
    /\ UNCHANGED <<store, regHist, inventory, tabs, persisted, ownerPage>>

\* onSortChange = setSortBy, by the buttons shown with a list of pharmacies
OnSortChange(key) ==
    /\ app.page = "results"
    /\ ~app.isLoading
    /\ Len(app.pharmacies) > 0
    /\ key \in {"distance", "price"}
    /\ app' = [app EXCEPT !.sortBy = key]
    /\ last' = Ran("onSortChange", app.epoch, FALSE)
    /\ UNCHANGED <<store, regHist, inventory, tabs, persisted, ownerPage>>

\* handleReturnHome, by the header of every page
HandleReturnHome ==
    /\ app.epoch < MaxSearches
    /\ app' = [app EXCEPT
                  !.epoch = NextEpoch,
                  !.page = "home",
                  !.pharmacies = <<>>,
                  !.medicineChoices = <<>>,
                  !.searchConfirmation = NoConfirmation,
                  !.locationError = NoText,
                  !.statusText = NoText,
                  !.isLoading = FALSE,
                  !.searchedMedicine = <<>>,
                  !.medicineDescription = NoText]
    /\ last' = Ran("handleReturnHome", NextEpoch, FALSE)
    /\ UNCHANGED <<store, regHist, inventory, tabs, persisted, ownerPage>>

\* the state with the promise or request settled
Settled(callback) == [app EXCEPT !.pending = @ \ {callback}]

\* handleMedicineSearch after await checkMedicineLocally
CheckedLocally(callback) ==
    LET db == GetDb(store)
        trimmedMedicine == callback.name
    IN  /\ callback.kind = "checkMedicineLocally"
        /\ IF IndexRaises(db)
           THEN /\ app' = CouldNotValidate(Settled(callback), trimmedMedicine)
                /\ last' = Ran("checkMedicineLocally", callback.epoch, TRUE)
           ELSE /\ app' = IF CheckMedicineLocally(db, trimmedMedicine)
                          THEN MedicineSelect(Settled(callback), trimmedMedicine, callback.epoch)
                          ELSE [Settled(callback) EXCEPT
                                   !.statusText = Text("Validating...", trimmedMedicine),
                                   !.pending = @ \cup {Callback("validateMedicineName",
                                                                callback.epoch, trimmedMedicine,
                                                                NoLocation)}]
                /\ last' = Ran("checkMedicineLocally", callback.epoch, FALSE)
        /\ UNCHANGED <<store, regHist, inventory, tabs, persisted, ownerPage>>

\* handleMedicineSearch after await validateMedicineName resolved
Validated(callback, validation) ==
    LET trimmedMedicine == callback.name
        suggestedMedicine == IF validation.correctedName # <<>>
                             THEN validation.correctedName ELSE trimmedMedicine
    IN  /\ callback.kind = "validateMedicineName"
        /\ app' = IF ~validation.valid
                  THEN [Settled(callback) EXCEPT
                           !.statusText = IF validation.reason # <<>>
                                          THEN Text("reason", validation.reason)
                                          ELSE Text("Sorry, not a recognized medicine.",
                                                    trimmedMedicine),
                           !.isLoading = FALSE]
                  ELSE IF ToLowerCase(suggestedMedicine) # ToLowerCase(trimmedMedicine)
                  THEN [Settled(callback) EXCEPT
                           !.searchConfirmation = Confirmation(suggestedMedicine, trimmedMedicine),
                           !.isLoading = FALSE,
                           !.statusText = Text("We think you meant...", suggestedMedicine)]
                  ELSE MedicineSelect(Settled(callback), suggestedMedicine, callback.epoch)
        /\ last' = Ran("validateMedicineName", callback.epoch, FALSE)
        /\ UNCHANGED <<store, regHist, inventory, tabs, persisted, ownerPage>>

\* handleMedicineSearch after await validateMedicineName rejected
ValidationFailed(callback) ==
    /\ callback.kind = "validateMedicineName"
    /\ app' = CouldNotValidate(Settled(callback), callback.name)
    /\ last' = Ran("validateMedicineName", callback.epoch, TRUE)
    /\ UNCHANGED <<store, regHist, inventory, tabs, persisted, ownerPage>>

\* handleDiseaseSearch after await getMedicineRecommendations resolved
Recommended(callback, recommendations) ==
    LET disease == callback.name
        choices == Choices(recommendations)
    IN  /\ callback.kind = "getMedicineRecommendations"
        /\ app' = IF Len(choices) = 0
                  THEN [Settled(callback) EXCEPT
                           !.statusText = Text("No specific medicine recommendations found.",
                                               disease),
                           !.isLoading = FALSE]
                  ELSE IF Len(choices) = 1
                  THEN MedicineSelect(Settled(callback), choices[1], callback.epoch)
                  ELSE [Settled(callback) EXCEPT
                           !.medicineChoices = choices,
                           !.isLoading = FALSE,
                           !.statusText = Text("AI recommended the following. Please choose one.",
                                               disease)]
        /\ last' = Ran("getMedicineRecommendations", callback.epoch, FALSE)
        /\ UNCHANGED <<store, regHist, inventory, tabs, persisted, ownerPage>>

\* handleDiseaseSearch after await getMedicineRecommendations rejected
RecommendationFailed(callback) ==
    /\ callback.kind = "getMedicineRecommendations"
    /\ app' = [Settled(callback) EXCEPT
                  !.statusText = Text("An error occurred. Please try your search again.", <<>>),
                  !.isLoading = FALSE]
    /\ last' = Ran("getMedicineRecommendations", callback.epoch, TRUE)
    /\ UNCHANGED <<store, regHist, inventory, tabs, persisted, ownerPage>>

\* the success callback of getCurrentPosition up to await Promise.all
PositionFound(callback, position) ==
    LET medicine == callback.name
    IN  /\ callback.kind = "getCurrentPosition"
        /\ app' = [Settled(callback) EXCEPT
                      !.statusText = Text("Finding pharmacies near you...", medicine),
                      !.pending = @ \cup {Callback("Promise.all", callback.epoch, medicine,
                                                   position)}]
        /\ last' = Ran("getCurrentPosition", callback.epoch, FALSE)
        /\ UNCHANGED <<store, regHist, inventory, tabs, persisted, ownerPage>>

\* the error callback of getCurrentPosition, with PERMISSION_DENIED or not
PositionFailed(callback, denied) ==
    LET errorMsg == IF denied THEN Text("Location access denied.", <<>>)
                    ELSE Text("Could not get your location.", <<>>)
    IN  /\ callback.kind = "getCurrentPosition"
        /\ app' = [Settled(callback) EXCEPT
                      !.locationError = errorMsg,
                      !.statusText = errorMsg,
                      !.isLoading = FALSE]
        /\ last' = Ran("getCurrentPosition", callback.epoch, TRUE)
        /\ UNCHANGED <<store, regHist, inventory, tabs, persisted, ownerPage>>

\* the success callback after await Promise.all: findNearbyPharmacies reads the
\* database when its delay is over; the description is fetched or the fetch
\* is rejected
LookupSettled(callback, described) ==
    LET db == GetDb(store)
        medicine == callback.name
        rejected == ~described \/ NearbyRaises(db, medicine)
    IN  /\ callback.kind = "Promise.all"
        /\ app' = IF rejected
                  THEN Finally(CouldNotFetch(Settled(callback)))
                  ELSE Finally(Found(Settled(callback), medicine,
                                     FindNearbyPharmacies(db, callback.at, medicine)))
        /\ last' = Ran("Promise.all", callback.epoch, rejected)
        /\ UNCHANGED <<store, regHist, inventory, tabs, persisted, ownerPage>>

\* a promise or a geolocation request settles and its continuation runs
Settle ==
    \E callback \in app.pending :
        \/ CheckedLocally(callback)
        \/ \E validation \in Validations : Validated(callback, validation)
        \/ ValidationFailed(callback)
        \/ \E recommendations \in Recommendations : Recommended(callback, recommendations)
        \/ RecommendationFailed(callback)
        \/ \E position \in UserLocations : PositionFound(callback, position)
        \/ \E denied \in BOOLEAN : PositionFailed(callback, denied)
        \/ \E described \in BOOLEAN : LookupSettled(callback, described)

\* what the user does
UserActs ==
    \/ \E medicine \in SearchTexts : HandleMedicineSearch(medicine)
    \/ \E disease \in DiseaseTexts : HandleDiseaseSearch(disease)
    \/ \E medicine \in Offered : HandleMedicineSelect(medicine)
    \/ \E key \in SortKeys : OnSortChange(key)
    \/ HandleReturnHome

NextApp == UserActs \/ Settle

SpecApp == InitApp /\ [][NextApp]_vars

\* every promise and every geolocation request is settled in the end
SpecAppSettles == SpecApp /\ WF_vars(Settle)

(***************************************************************************)
(* Properties of the App                                                   *)
(***************************************************************************)
\* the lookup settled last ran its try block to the end
LookupResolved == last.op = "Promise.all" /\ ~last.raised

\* the lookup settled last ran its catch block
LookupRejected == last.op = "Promise.all" /\ last.raised

\* C27: search results never come from a stale request: a non-empty list of
\* pharmacies was produced by the lookup for the medicine in searchedMedicine
\* (the lookup sets the description of its medicine together with the list,
\* and whatever clears or replaces the description clears the list), and a
\* lookup that settles belongs to the latest action of the user, so that it
\* never overwrites pharmacies, isLoading or statusText of a later search or
\* of a return to the home page.
C27_NoStaleResults ==
    /\ app.pharmacies # <<>> => app.medicineDescription.name = app.searchedMedicine
    /\ last.op = "Promise.all" => last.epoch = app.epoch

\* the key the list is sorted by
SortKeyOf(p, sortBy) == IF sortBy = "price" THEN p.price ELSE p.distance

C29_LoadingEnds == app.isLoading ~> ~app.isLoading

\* a search whose lookup was rejected has stopped loading
C29_Witness == LookupRejected /\ ~app.isLoading /\ app.pending = {}

\* C30: when the lookup of the pharmacies or the fetch of the description
\* fails, the search ends with isLoading false, no pharmacies and the status
\* text 'Could not fetch pharmacy data.'.
C30_FailureShown ==
    LookupRejected =>
        /\ ~app.isLoading
        /\ app.pharmacies = <<>>
        /\ app.statusText = Text("Could not fetch pharmacy data.", <<>>)

====
